---- MODULE Spec2Model ----
(***************************************************************************)
(* MT4 Trading System: the session / channel manager of                    *)
(* mt4_connector/base_connector.py (MT4BaseConnector) and the shutdown of  *)
(* mt4_connector/historical_data_handler.py, as a state machine.           *)
(*                                                                         *)
(* Threads: "main" (the caller: __init__, send, receive, shutdown),        *)
(* "data" (DataThread, _data_loop) and one monitor thread per socket       *)
(* ("mon_push", "mon_pull", "mon_sub", _monitor_loop).  The transport      *)
(* (libzmq's I/O thread and the MT4 peer) is the environment.              *)
(*                                                                         *)
(* Time is counted in ticks of 250 ms.                                     *)
(***************************************************************************)
EXTENDS Integers, Sequences, FiniteSets, TLC

\* ---------------------------------------------------------------- bounds
\* NETWORK.retries: the configured retry budget (max_retries).
max_retries == 2
\* Disconnects the peer may cause on monitored sockets.
MaxDisconnects == 2
\* Critical (non-EAGAIN) transport errors the environment may raise on a healthy socket.
MaxErrors == 1
\* Failing socket()/connect() calls inside reconnections and inside __init__.
MaxFails == 2
\* Messages the peer delivers to the reply and feed sockets.
MaxMsgs == 1
\* Calls of send / receive / shutdown the caller makes.
MaxCalls == 2
\* Symbols in the configured list of a batch.
NumSymbols == 2
\* Candles in one payload.
MaxRows == 3
\* Timestamps (minutes) of the candles handed to save_data.
MaxTime == 2
\* Calls of save_data on one series file.
MaxSaves == 2
\* Weeks of clock values of a freshness decision.
Weeks == 2

\* Messages the dispatcher reads in a run of its message handling.
MaxHandled == 2

\* Ticks that can wait unread on the feed socket.
MaxTicks == 1

\* ------------------------------------------------------- program constants
\* NETWORK.timeout = 10000 ms, the poll timeout, in ticks.
poll_timeout == 40
\* NETWORK.sleep_delay = 0.25 s, in ticks.
sleep_delay == 1
\* receive(timeout=3) of scripts/trades/open_trade.py, in ticks.
ShortTimeout == 12
\* receive(timeout=10) of _fetch_single_timeframe, in ticks.
FetchTimeout == 40
\* receive(timeout=15) of fetch_launcher.fetch_symbol_data, in ticks.
LauncherTimeout == 60

Roles == {"push", "pull", "sub"}

\* DEFAULT_CONFIG['PORTS'] of mt4_connector/__init__.py, by key.
PORTS(key) == CASE key = "push" -> 5565 [] key = "pull" -> 5566 [] key = "sub" -> 5557
\* The port _init_sockets connects the socket of a role to: PORTS[role].
init_port(role) == PORTS(role)
\* The port _handle_disconnection hands to _reconnect_socket: self.push_port
\* = PORTS['pull'], self.pull_port = PORTS['push'], self.sub_port = PORTS['sub'].
reconnect_port(role) ==
    CASE role = "push" -> PORTS("pull") [] role = "pull" -> PORTS("push")
      [] role = "sub" -> PORTS("sub")
Monitors == {"mon_push", "mon_pull", "mon_sub"}
Threads == {"main", "data"} \cup Monitors
MonitorThread(r) == IF r = "push" THEN "mon_push" ELSE IF r = "pull" THEN "mon_pull" ELSE "mon_sub"
RoleOfMonitor(t) == IF t = "mon_push" THEN "push" ELSE IF t = "mon_pull" THEN "pull" ELSE "sub"

\* Socket objects are numbered in order of creation; 0 is "attribute not set".
MaxSock == 3 * (max_retries + 1) + MaxDisconnects + MaxErrors + MaxMsgs + 1
Socks == 1..MaxSock

\* Values of result: "None" and "msg" (a message) from receive(), "True" and
\* "False" from send().
None == "None"
Timeouts == {ShortTimeout, FetchTimeout}

VARIABLES
    active,              \* self.active
    shutdown_initiated,  \* self._shutdown_initiated
    context,             \* self.context: "unset", "open", "destroyed"
    sock_state,          \* per socket object: "none", "open", "closed"
    sock_role,           \* per socket object: its role (socket type)
    sock_port,           \* per socket object: the port it was connected to (0: none)
    link,                \* per socket object: TCP connection to the peer established
    inq,                 \* per socket object: messages queued for reading
    sock_of,             \* self.push_sock / self.pull_sock / self.sub_sock (0: unset)
    poller,              \* self.poller: the registered sockets
    poller_set,          \* whether self.poller exists
    socket_status,       \* self._socket_status
    monitor_of,          \* per role: the socket its monitor socket observes (0: none)
    monitor_closed,      \* per role: monitor socket closed by shutdown
    mq,                  \* per role: events queued on the monitor socket
    pc,                  \* per thread: position
    stack,               \* per thread: return positions of the calls in progress
    rc,                  \* per thread: locals of _reconnect_socket
    rv,                  \* per thread: locals of receive
    d_socks,             \* _data_loop: result of its poll
    retry_count,         \* main: retry_count of _initialize_connection / send
    result,              \* per thread: value returned by the last send / receive
    raised,              \* exception that escaped __init__ ("" when none)
    csv_file,            \* MT4HistoricalDataHandler.csv_file: "none", "open", "closed"
    data_threads,        \* number of DataThread instances started and not finished
    n_sock,              \* sockets created so far
    \* history of the run, read by the properties only
    attempts,            \* connection attempts made by _initialize_connection
    delays,              \* retry_delay sleeps made by _initialize_connection
    sleeps,              \* retry_delay sleeps made inside the current send() call
    handed,              \* messages the current send() call handed to the transport
    call,                \* the last operation the caller invoked
    elapsed,             \* ticks the current receive() of the caller has been running
    queued_at_call,      \* a message was queued on a healthy reply channel when the caller called receive
    unhealthy_at_call,   \* the channel of the call (command for send, reply for receive) was unhealthy when the caller made it
    reconn_ok,           \* per role: reconnections that returned True
    reconn_failed,       \* per role: a reconnection exhausted its retries, by thread kind
    rc_attempts,         \* per thread: attempts of the reconnection in progress
    shutdowns,           \* completed shutdown() calls
    seen_connected,      \* per role: the health accessor has reported connected
    released,            \* resources closed or released so far
    n_disc, n_err, n_fail, n_msg, n_call

\* The historical acquisition engine (scripts/historical/fetch_launcher.py,
\* fetch_launcher2.py and MT4HistoricalDataHandler.fetch_and_save).
VARIABLES
    engine,              \* the acquisition code that runs: "launcher", "launcher2" or "handler"
    now,                 \* datetime.now(), in minutes since a Monday 00:00
    timeframe,           \* the requested timeframe
    files,               \* per symbol: the series file (exists, rows in file order)
    epc,                 \* position of the acquisition code
    to_update,           \* main: the symbols that need an update, in list order
    idx,                 \* main: index into to_update of the current step
    stats,               \* main: the counters of the summary
    inflight,            \* requests the terminal has received and not yet answered
    replies,             \* responses queued on the reply channel
    resp,                \* the response receive() returned to the current step
    wbuf,                \* rows save_data still has to write to the open file
    step,                \* the acquisition step in progress
    log,                 \* the finished steps, oldest first
    judged,              \* per symbol: the last result of needs_update
    answers,             \* the response texts the terminal answers a request with
    verdict              \* the last result of verify_timeframe

\* The anomaly maintenance pass (scripts/data_validation/validate_csv_data.py,
\* process_symbol on one series file).
VARIABLES
    series,              \* the series file the pass works on (exists, rows in file order)
    series0,             \* history: the series file when the pass started
    ppc,                 \* position of process_symbol: "start", "menu", "end", "quit"
    analysis,            \* df, last_valid, anomalies, error of the last analyze_file
    choice,              \* the operator's last answer to the menu
    n_deleted,           \* history: clean_and_save calls that returned success
    n_saveerr            \* clean_and_save calls that failed

\* The dispatcher's handling of the messages it reads (_data_loop with the
\* handlers of MT4BaseConnector and MT4MarketDataHandler), by message content.
VARIABLES
    klass,               \* the class of the session: "none", "base" or "market"
    market_data,         \* MT4MarketDataHandler.market_data: symbol -> list of (bid, ask)
    dloop,               \* the dispatcher loop: "off", "running" or "ended"
    handled,             \* messages the dispatcher has read
    n_raised,            \* history: messages whose handling raised an exception
    last                 \* history: the last message read, what its handling raised, market_data before it

feedVars == <<klass, market_data, dloop, handled, n_raised, last>>

toolVars == <<series, series0, ppc, analysis, choice, n_deleted, n_saveerr>>

engineVars == <<engine, now, timeframe, files, epc, to_update, idx, stats, inflight,
                replies, resp, wbuf, step, log, judged, answers, verdict>>

sessionVars == <<active, shutdown_initiated, context, sock_state, sock_role, sock_port, link, inq,
                 sock_of, poller, poller_set, socket_status, monitor_of, monitor_closed,
                 mq, csv_file, data_threads, n_sock>>
threadVars == <<pc, stack, rc, rv, d_socks, retry_count, result, raised>>
historyVars == <<attempts, delays, sleeps, handed, call, elapsed, queued_at_call,
                 unhealthy_at_call, reconn_ok, reconn_failed, rc_attempts,
                 shutdowns, seen_connected, released>>
budgetVars == <<n_disc, n_err, n_fail, n_msg, n_call>>
connectorVars == <<sessionVars, threadVars, historyVars, budgetVars>>
vars == <<connectorVars, engineVars, toolVars, feedVars>>

NoRc == [role |-> "none", sock |-> 0, retry |-> 0, new |-> 0]
\* timeout is read only when bounded (timeout is not None).
NoRv == [timeout |-> 0, bounded |-> FALSE, socks |-> {}]

\* ------------------------------------------------- acquisition engine: data
\* symbols.json: the configured symbols, by position in the list.
Symbols == 1..NumSymbols
\* A series file that does not exist (os.path.exists is False).
NoFile == [exists |-> FALSE, rows |-> <<>>]
\* receive() returned None, or nothing was received yet.
NoResp == [form |-> "none", kind |-> "none", data |-> <<>>, of |-> 0]
\* stats of main before the first pass.
NoStats == [needs_update |-> 0, up_to_date |-> 0, updated |-> 0, failed |-> 0]
NoVerdict == [ok |-> FALSE, detected |-> "none", data |-> <<>>, requested |-> "none"]
\* No acquisition step in progress.  sent: the request was handed to the
\* transport; got: receive() returned a response; waited: seconds receive()
\* waited; before: the series file when the step began.
NoStep == [symbol |-> 0, ret |-> "none", sent |-> FALSE, got |-> FALSE, waited |-> 0,
           data |-> <<>>, before |-> NoFile, outcome |-> "none", reported |-> "none",
           error |-> FALSE]

\* The pass has not been started.
NoAnalysis == [df |-> <<>>, last_valid |-> <<>>, anomalies |-> <<>>, error |-> "none"]
ToolOff ==
    /\ series = [exists |-> FALSE, rows |-> <<>>] /\ series0 = [exists |-> FALSE, rows |-> <<>>]
    /\ ppc = "off" /\ analysis = NoAnalysis /\ choice = "none"
    /\ n_deleted = 0 /\ n_saveerr = 0

\* No message read yet.
NoMessage == [channel |-> "none", msg |-> <<>>, exc |-> "none", before |-> <<>>]
\* The dispatcher is not started.
FeedOff ==
    /\ klass = "none" /\ market_data = <<>> /\ dloop = "off"
    /\ handled = 0 /\ n_raised = 0 /\ last = NoMessage

\* The acquisition code is not running.
EngineOff ==
    /\ engine = "none" /\ now = 0 /\ timeframe = "none"
    /\ files = [s \in Symbols |-> NoFile]
    /\ epc = "off" /\ to_update = <<>> /\ idx = 0 /\ stats = NoStats
    /\ inflight = <<>> /\ replies = <<>> /\ resp = NoResp /\ wbuf = <<>>
    /\ step = NoStep /\ log = <<>>
    /\ judged = [s \in Symbols |-> "none"]
    /\ answers = {}
    /\ verdict = NoVerdict

\* State before MT4BaseConnector.__init__ runs (lines 122-135 set the flags and
\* the status table; no socket exists yet).
SessionInit ==
    /\ active = TRUE
    /\ shutdown_initiated = FALSE
    /\ context = "unset"
    /\ sock_state = [s \in Socks |-> "none"]
    /\ sock_role = [s \in Socks |-> "none"]
    /\ sock_port = [s \in Socks |-> 0]
    /\ link = [s \in Socks |-> FALSE]
    /\ inq = [s \in Socks |-> 0]
    /\ sock_of = [r \in Roles |-> 0]
    /\ poller = {}
    /\ poller_set = FALSE
    /\ socket_status = [r \in Roles |-> [connected |-> FALSE, last_event |-> "None"]]
    /\ monitor_of = [r \in Roles |-> 0]
    /\ monitor_closed = [r \in Roles |-> FALSE]
    /\ mq = [r \in Roles |-> <<>>]
    /\ pc = [t \in Threads |-> IF t = "main" THEN "init_loop" ELSE "off"]
    /\ stack = [t \in Threads |-> <<>>]
    /\ rc = [t \in Threads |-> NoRc]
    /\ rv = [t \in Threads |-> NoRv]
    /\ d_socks = {}
    /\ retry_count = 0
    /\ result = [t \in Threads |-> None]
    /\ raised = ""
    /\ csv_file = "none"
    /\ data_threads = 0
    /\ n_sock = 0
    /\ attempts = 0
    /\ delays = 0
    /\ sleeps = 0
    /\ handed = 0
    /\ call = "none"
    /\ elapsed = 0
    /\ queued_at_call = FALSE
    /\ unhealthy_at_call = FALSE
    /\ reconn_ok = [r \in Roles |-> 0]
    /\ reconn_failed = [r \in Roles |-> {}]
    /\ rc_attempts = [t \in Threads |-> 0]
    /\ shutdowns = 0
    /\ seen_connected = [r \in Roles |-> FALSE]
    /\ released = 0
    /\ n_disc = 0 /\ n_err = 0 /\ n_fail = 0 /\ n_msg = 0 /\ n_call = 0

Init == SessionInit /\ EngineOff /\ ToolOff /\ FeedOff


\* ------------------------------------------------------------- accessors
is_push_connected_mut == TRUE
is_push_connected == socket_status["push"].connected
is_pull_connected == socket_status["pull"].connected
is_sub_connected == socket_status["sub"].connected

\* A loop test that does not read the flags.
Running_mut == TRUE
\* while self.active and not self._shutdown_initiated
Running == active /\ ~shutdown_initiated

Goto(t, label) == pc' = [pc EXCEPT ![t] = label]
Call(t, label, back) ==
    /\ pc' = [pc EXCEPT ![t] = label]
    /\ stack' = [stack EXCEPT ![t] = <<back>> \o @]
Return(t) ==
    /\ pc' = [pc EXCEPT ![t] = Head(stack[t])]
    /\ stack' = [stack EXCEPT ![t] = Tail(@)]

\* ------------------------------------------------------------- transport
\* Events libzmq queues on the monitor socket when the observed socket is
\* closed: EVENT_CLOSED when a connection attempt was in progress (closed
\* says whether the connecter held a descriptor), then EVENT_MONITOR_STOPPED.
CloseEvents(s, closed) ==
    (IF closed /\ ~link[s] THEN <<"CLOSED">> ELSE <<>>) \o <<"MONITOR_STOPPED">>

\* socket.close() on every socket of S that is still open (closed sockets are
\* skipped by the callers' "if not sock.closed").
CloseSockets(S, closed) ==
    LET open == {s \in S : s # 0 /\ sock_state[s] = "open"} IN
    /\ sock_state' = [s \in Socks |-> IF s \in open THEN "closed" ELSE sock_state[s]]
    /\ link' = [s \in Socks |-> IF s \in open THEN FALSE ELSE link[s]]
    /\ inq' = [s \in Socks |-> IF s \in open THEN 0 ELSE inq[s]]
    /\ mq' = [r \in Roles |->
                IF monitor_of[r] \in open
                THEN mq[r] \o CloseEvents(monitor_of[r], closed) ELSE mq[r]]
    /\ released' = released + Cardinality(open)

\* The event a monitored socket reports; sockets created by a reconnection
\* have no monitor socket (get_monitor_socket is called in
\* _init_socket_monitoring only), so their events are not observed.
Emit(s, ev) ==
    mq' = [r \in Roles |-> IF monitor_of[r] = s THEN Append(mq[r], ev) ELSE mq[r]]

\* libzmq establishes the TCP connection of an open socket (asynchronously
\* after connect(), and again by itself after a disconnect).
PeerConnect(s) ==
    /\ sock_state[s] = "open" /\ ~link[s]
    /\ link' = [link EXCEPT ![s] = TRUE]
    /\ Emit(s, "CONNECTED")
    /\ UNCHANGED <<active, shutdown_initiated, context, sock_state, sock_role, sock_port, inq,
                   sock_of, poller, poller_set, socket_status, monitor_of,
                   monitor_closed, csv_file, data_threads, n_sock>>
    /\ UNCHANGED <<threadVars, historyVars, engineVars, toolVars, feedVars, budgetVars>>

\* The peer drops the connection of an open socket.
PeerDisconnect(s) ==
    /\ sock_state[s] = "open" /\ link[s]
    /\ n_disc < MaxDisconnects
    /\ n_disc' = n_disc + 1
    /\ link' = [link EXCEPT ![s] = FALSE]
    /\ Emit(s, "DISCONNECTED")
    /\ UNCHANGED <<active, shutdown_initiated, context, sock_state, sock_role, sock_port, inq,
                   sock_of, poller, poller_set, socket_status, monitor_of,
                   monitor_closed, csv_file, data_threads, n_sock>>
    /\ UNCHANGED <<threadVars, historyVars, engineVars, toolVars, feedVars, n_err, n_fail, n_msg, n_call>>

\* The peer delivers a message to a connected reply or feed socket.
Deliver(s) ==
    /\ sock_state[s] = "open" /\ link[s]
    /\ sock_role[s] \in {"pull", "sub"}
    /\ n_msg < MaxMsgs
    /\ n_msg' = n_msg + 1
    /\ inq' = [inq EXCEPT ![s] = @ + 1]
    /\ UNCHANGED <<active, shutdown_initiated, context, sock_state, sock_role, sock_port, link,
                   sock_of, poller, poller_set, socket_status, monitor_of,
                   monitor_closed, mq, csv_file, data_threads, n_sock>>
    /\ UNCHANGED <<threadVars, historyVars, engineVars, toolVars, feedVars, n_disc, n_err, n_fail, n_call>>

\* The terminal publishes a tick on a connected feed socket; at most MaxTicks
\* ticks wait in its queue.
Publish(s) ==
    /\ sock_state[s] = "open" /\ link[s]
    /\ sock_role[s] = "sub"
    /\ inq[s] < MaxTicks
    /\ inq' = [inq EXCEPT ![s] = @ + 1]
    /\ UNCHANGED <<active, shutdown_initiated, context, sock_state, sock_role, sock_port, link,
                   sock_of, poller, poller_set, socket_status, monitor_of,
                   monitor_closed, mq, csv_file, data_threads, n_sock>>
    /\ UNCHANGED <<threadVars, historyVars, engineVars, toolVars, feedVars, budgetVars>>

\* ------------------------------------------------- _update_socket_status
update_socket_status(socket_type, event_name) ==
    [socket_status EXCEPT
        ![socket_type].last_event = event_name,
        ![socket_type].connected =
            IF event_name = "CONNECTED" THEN TRUE
            ELSE IF event_name \in {"DISCONNECTED", "CLOSED"} THEN FALSE
            ELSE @]

\* ------------------------------------------------------ _reconnect_socket
\* _handle_disconnection(socket_type): the call reads the role's current
\* socket attribute and passes it as the socket to replace.
handle_disconnection(t, socket_type, back) ==
    /\ Call(t, "rc_loop", back)
    /\ rc' = [rc EXCEPT ![t] = [role |-> socket_type, sock |-> sock_of[socket_type],
                                retry |-> 0, new |-> 0]]
    /\ rc_attempts' = [rc_attempts EXCEPT ![t] = 0]

ThreadKind(t) == IF t \in Monitors THEN "monitor" ELSE t

\* Loop test (line 400) and, on entry, the unregistration of the old socket
\* (lines 408-416); leaving the loop returns False (lines 460-461).
rc_loop(t) ==
    /\ pc[t] = "rc_loop"
    /\ IF rc[t].retry < max_retries /\ Running
       THEN /\ Goto(t, "rc_close")
            /\ poller' = IF rc[t].role \in {"pull", "sub"}
                         THEN poller \ {rc[t].sock} ELSE poller
            /\ rc_attempts' = [rc_attempts EXCEPT ![t] = @ + 1]
            /\ UNCHANGED <<stack, rc, reconn_failed>>
       ELSE /\ Return(t)
            /\ rc' = [rc EXCEPT ![t] = NoRc]
            /\ reconn_failed' =
                 IF rc[t].retry >= max_retries
                 THEN [reconn_failed EXCEPT ![rc[t].role] = @ \cup {ThreadKind(t)}]
                 ELSE reconn_failed
            /\ UNCHANGED <<poller, rc_attempts>>
    /\ UNCHANGED <<active, shutdown_initiated, context, sock_state, sock_role, sock_port, link, inq,
                   sock_of, poller_set, socket_status, monitor_of, monitor_closed,
                   mq, csv_file, data_threads, n_sock>>
    /\ UNCHANGED <<rv, d_socks, retry_count, result, raised>>
    /\ UNCHANGED <<attempts, delays, sleeps, handed, call, elapsed, queued_at_call,
                   unhealthy_at_call, reconn_ok, shutdowns, seen_connected, engineVars, toolVars, feedVars, released>>
    /\ UNCHANGED budgetVars

\* if not socket.closed: socket.close()  (lines 418-420)
rc_close(t) ==
    /\ pc[t] = "rc_close"
    /\ \E closed \in BOOLEAN : CloseSockets({rc[t].sock}, closed)
    /\ Goto(t, "rc_new")
    /\ UNCHANGED <<active, shutdown_initiated, context, sock_role, sock_port, sock_of, poller,
                   poller_set, socket_status, monitor_of, monitor_closed, csv_file,
                   data_threads, n_sock>>
    /\ UNCHANGED <<stack, rc, rv, d_socks, retry_count, result, raised>>
    /\ UNCHANGED <<attempts, delays, sleeps, handed, call, elapsed, queued_at_call,
                   unhealthy_at_call, reconn_ok, reconn_failed, rc_attempts, shutdowns, seen_connected, engineVars, toolVars, feedVars>>
    /\ UNCHANGED budgetVars

\* new_socket = self.context.socket(...); setsockopt; connect (lines 423-432).
\* Both calls can raise zmq.ZMQError; they do when the context is destroyed.
rc_new_ok(t) ==
    /\ pc[t] = "rc_new"
    /\ context = "open"
    /\ n_sock < MaxSock
    /\ n_sock' = n_sock + 1
    /\ sock_state' = [sock_state EXCEPT ![n_sock + 1] = "open"]
    /\ sock_role' = [sock_role EXCEPT ![n_sock + 1] = rc[t].role]
    /\ sock_port' = [sock_port EXCEPT ![n_sock + 1] = reconnect_port(rc[t].role)]
    /\ rc' = [rc EXCEPT ![t].new = n_sock + 1]
    /\ Goto(t, "rc_assign")
    /\ UNCHANGED <<active, shutdown_initiated, context, link, inq, sock_of, poller,
                   poller_set, socket_status, monitor_of, monitor_closed, mq, csv_file,
                   data_threads>>
    /\ UNCHANGED <<stack, rv, d_socks, retry_count, result, raised>>
    /\ UNCHANGED <<historyVars, engineVars, toolVars, feedVars, budgetVars>>

\* except zmq.ZMQError: retry_count += 1; sleep unless it was the last attempt
\* (lines 454-458).
rc_new_fail(t) ==
    /\ pc[t] = "rc_new"
    /\ \/ context # "open" /\ UNCHANGED n_fail
       \/ context = "open" /\ n_fail < MaxFails /\ n_fail' = n_fail + 1
    /\ rc' = [rc EXCEPT ![t].retry = @ + 1]
    /\ sleeps' = IF t = "main" /\ rc[t].retry + 1 < max_retries
                 THEN sleeps + 1 ELSE sleeps
    /\ Goto(t, "rc_loop")
    /\ UNCHANGED sessionVars
    /\ UNCHANGED <<stack, rv, d_socks, retry_count, result, raised>>
    /\ UNCHANGED <<attempts, delays, handed, call, elapsed, queued_at_call,
                   unhealthy_at_call, reconn_ok, reconn_failed, rc_attempts,
                   shutdowns, seen_connected, engineVars, toolVars, feedVars, released>>
    /\ UNCHANGED <<n_disc, n_err, n_msg, n_call>>

\* The reference update of lines 435-440.
UpdateReferenceWrong_mut(socket_type, new_socket) ==
    IF socket_type = "push" THEN [sock_of EXCEPT !["pull"] = new_socket]
    ELSE IF socket_type = "pull" THEN [sock_of EXCEPT !["pull"] = new_socket]
    ELSE [sock_of EXCEPT !["sub"] = new_socket]

UpdateReference(socket_type, new_socket) ==
    IF socket_type = "push" THEN [sock_of EXCEPT !["push"] = new_socket]
    ELSE IF socket_type = "pull" THEN [sock_of EXCEPT !["pull"] = new_socket]
    ELSE [sock_of EXCEPT !["sub"] = new_socket]

rc_assign(t) ==
    /\ pc[t] = "rc_assign"
    /\ sock_of' = UpdateReference(rc[t].role, rc[t].new)
    /\ Goto(t, "rc_register")
    /\ UNCHANGED <<active, shutdown_initiated, context, sock_state, sock_role, sock_port, link, inq,
                   poller, poller_set, socket_status, monitor_of, monitor_closed, mq,
                   csv_file, data_threads, n_sock>>
    /\ UNCHANGED <<stack, rc, rv, d_socks, retry_count, result, raised>>
    /\ UNCHANGED <<historyVars, engineVars, toolVars, feedVars, budgetVars>>

\* self.poller.register(new_socket, zmq.POLLIN) for pull and sub, then
\* return True (lines 443-452).
rc_register(t) ==
    /\ pc[t] = "rc_register"
    /\ poller' = IF rc[t].role \in {"pull", "sub"}
                 THEN poller \cup {rc[t].new} ELSE poller
    /\ reconn_ok' = [reconn_ok EXCEPT ![rc[t].role] = @ + 1]
    /\ rc' = [rc EXCEPT ![t] = NoRc]
    /\ Return(t)
    /\ UNCHANGED <<active, shutdown_initiated, context, sock_state, sock_role, sock_port, link, inq,
                   sock_of, poller_set, socket_status, monitor_of, monitor_closed, mq,
                   csv_file, data_threads, n_sock>>
    /\ UNCHANGED <<rv, d_socks, retry_count, result, raised>>
    /\ UNCHANGED <<attempts, delays, sleeps, handed, call, elapsed, queued_at_call,
                   unhealthy_at_call, reconn_failed, rc_attempts, shutdowns, seen_connected, engineVars, toolVars, feedVars, released>>
    /\ UNCHANGED budgetVars

Reconnect(t) ==
    \/ rc_loop(t) \/ rc_close(t) \/ rc_new_ok(t) \/ rc_new_fail(t)
    \/ rc_assign(t) \/ rc_register(t)

\* ---------------------------------------------------------- _monitor_loop
\* One iteration that receives an event: the status update and, for
\* EVENT_DISCONNECTED, the call of _handle_disconnection (lines 350-361).
\* An iteration that finds no event (EAGAIN) sleeps and changes nothing.
monitor_event(t) ==
    LET r == RoleOfMonitor(t) IN
    /\ pc[t] = "m_loop"
    /\ Running
    /\ ~monitor_closed[r]
    /\ mq[r] # <<>>
    /\ mq' = [mq EXCEPT ![r] = Tail(@)]
    /\ socket_status' = update_socket_status(r, Head(mq[r]))
    /\ IF Head(mq[r]) = "DISCONNECTED"
       THEN handle_disconnection(t, r, "m_loop")
       ELSE UNCHANGED <<pc, stack, rc, rc_attempts>>
    /\ UNCHANGED <<active, shutdown_initiated, context, sock_state, sock_role, sock_port, link, inq,
                   sock_of, poller, poller_set, monitor_of, monitor_closed, csv_file,
                   data_threads, n_sock>>
    /\ UNCHANGED <<rv, d_socks, retry_count, result, raised>>
    /\ seen_connected' = [seen_connected EXCEPT ![r] = @ \/ socket_status'[r].connected]
    /\ UNCHANGED <<engineVars, toolVars, feedVars>>
    /\ UNCHANGED <<attempts, delays, sleeps, handed, call, elapsed, queued_at_call,
                   unhealthy_at_call, reconn_ok, reconn_failed, shutdowns, released>>
    /\ UNCHANGED budgetVars

\* The loop test fails once shutdown() has set the flags (line 348).
monitor_stop(t) ==
    /\ pc[t] = "m_loop"
    /\ ~Running
    /\ Goto(t, "stopped")
    /\ UNCHANGED sessionVars
    /\ UNCHANGED <<stack, rc, rv, d_socks, retry_count, result, raised>>
    /\ UNCHANGED <<historyVars, engineVars, toolVars, feedVars, budgetVars>>

Monitor(t) == monitor_event(t) \/ monitor_stop(t)


\* ------------------------------------------- __init__ / _initialize_connection
\* Loop test of line 157; leaving the loop raises ConnectionError (lines
\* 176-178).  Entering it creates the context (line 159).
init_loop ==
    /\ pc["main"] = "init_loop"
    /\ IF retry_count <= max_retries /\ ~shutdown_initiated
       THEN /\ context' = "open"
            /\ attempts' = attempts + 1
            /\ Goto("main", "init_sockets")
            /\ UNCHANGED raised
       ELSE /\ raised' = "ConnectionError"
            /\ Goto("main", "raised")
            /\ UNCHANGED <<context, attempts>>
    /\ UNCHANGED <<active, shutdown_initiated, sock_state, sock_role, sock_port, link, inq,
                   sock_of, poller, poller_set, socket_status, monitor_of,
                   monitor_closed, mq, csv_file, data_threads, n_sock>>
    /\ UNCHANGED <<stack, rc, rv, d_socks, retry_count, result>>
    /\ UNCHANGED <<delays, sleeps, handed, call, elapsed, queued_at_call,
                   unhealthy_at_call, reconn_ok, reconn_failed, rc_attempts,
                   shutdowns, seen_connected, engineVars, toolVars, feedVars, released>>
    /\ UNCHANGED budgetVars

\* The role whose socket is created k-th by _init_sockets (lines 196-198).
CreationOrder == <<"push", "pull", "sub">>

\* _init_sockets without error (lines 196-227): three sockets are created and
\* connected, a new poller holds the reply and the feed socket.
init_sockets_ok ==
    /\ pc["main"] = "init_sockets"
    /\ n_sock + 3 <= MaxSock
    /\ n_sock' = n_sock + 3
    /\ sock_state' = [s \in Socks |->
                        IF s \in (n_sock + 1)..(n_sock + 3) THEN "open" ELSE sock_state[s]]
    /\ sock_role' = [s \in Socks |->
                        IF s \in (n_sock + 1)..(n_sock + 3)
                        THEN CreationOrder[s - n_sock] ELSE sock_role[s]]
    /\ sock_port' = [s \in Socks |->
                        IF s \in (n_sock + 1)..(n_sock + 3)
                        THEN init_port(CreationOrder[s - n_sock]) ELSE sock_port[s]]
    /\ sock_of' = [r \in Roles |->
                     IF r = "push" THEN n_sock + 1
                     ELSE IF r = "pull" THEN n_sock + 2 ELSE n_sock + 3]
    /\ poller' = {n_sock + 2, n_sock + 3}
    /\ poller_set' = TRUE
    /\ Goto("main", "init_data")
    /\ UNCHANGED <<active, shutdown_initiated, context, link, inq, socket_status,
                   monitor_of, monitor_closed, mq, csv_file, data_threads>>
    /\ UNCHANGED <<stack, rc, rv, d_socks, retry_count, result, raised>>
    /\ UNCHANGED <<historyVars, engineVars, toolVars, feedVars, budgetVars>>

\* except zmq.ZMQError of _initialize_connection (lines 168-174): count the
\* attempt, sleep unless it was the last one, _cleanup_resources (close the
\* sockets the attributes name, destroy the context, which closes every
\* socket left in it).
RetryAfterError(created, closed) ==
    LET open == {s \in Socks : sock_state[s] = "open"} IN
    /\ retry_count' = retry_count + 1
    /\ delays' = IF retry_count + 1 <= max_retries THEN delays + 1 ELSE delays
    /\ context' = "destroyed"
    /\ sock_state' = [s \in Socks |->
                        IF s \in open \cup created THEN "closed" ELSE sock_state[s]]
    /\ link' = [s \in Socks |-> IF s \in open THEN FALSE ELSE link[s]]
    /\ inq' = [s \in Socks |-> IF s \in open THEN 0 ELSE inq[s]]
    /\ mq' = [r \in Roles |->
                IF monitor_of[r] \in open
                THEN mq[r] \o CloseEvents(monitor_of[r], closed) ELSE mq[r]]
    /\ released' = released + Cardinality(open \cup created) + 1
    /\ Goto("main", "init_loop")

\* _init_sockets raising zmq.ZMQError after k sockets were created (k = 3: in
\* setsockopt, connect or register).  Its handler calls _cleanup_sockets
\* (lines 229-232, 656-663), which reads self.push_sock, self.pull_sock and
\* self.sub_sock: an attribute never assigned raises AttributeError, which no
\* handler of __init__ catches.
init_sockets_fail(k) ==
    /\ pc["main"] = "init_sockets"
    /\ n_fail < MaxFails
    /\ n_sock + k <= MaxSock
    /\ n_fail' = n_fail + 1
    /\ LET assigned == [r \in Roles |->
                          IF r = "push" /\ k >= 1 THEN n_sock + 1
                          ELSE IF r = "pull" /\ k >= 2 THEN n_sock + 2
                          ELSE IF r = "sub" /\ k >= 3 THEN n_sock + 3
                          ELSE sock_of[r]]
       IN /\ sock_of' = assigned
          /\ n_sock' = n_sock + k
          /\ sock_role' = [s \in Socks |->
                             IF s \in (n_sock + 1)..(n_sock + k)
                             THEN CreationOrder[s - n_sock] ELSE sock_role[s]]
          /\ sock_port' = [s \in Socks |->
                             IF s \in (n_sock + 1)..(n_sock + k)
                             THEN init_port(CreationOrder[s - n_sock]) ELSE sock_port[s]]
          /\ IF \E r \in Roles : assigned[r] = 0
             THEN /\ raised' = "AttributeError"
                  /\ Goto("main", "raised")
                  /\ sock_state' = [s \in Socks |->
                                      IF s \in (n_sock + 1)..(n_sock + k)
                                      THEN "open" ELSE sock_state[s]]
                  /\ UNCHANGED <<retry_count, delays, context, link, inq, mq, released>>
             ELSE /\ \E closed \in BOOLEAN :
                        RetryAfterError((n_sock + 1)..(n_sock + k), closed)
                  /\ UNCHANGED raised
    /\ UNCHANGED <<active, shutdown_initiated, poller, poller_set, socket_status,
                   monitor_of, monitor_closed, csv_file, data_threads>>
    /\ UNCHANGED <<stack, rc, rv, d_socks, result>>
    /\ UNCHANGED <<attempts, sleeps, handed, call, elapsed, queued_at_call,
                   unhealthy_at_call, reconn_ok, reconn_failed, rc_attempts, shutdowns, seen_connected, engineVars, toolVars, feedVars>>
    /\ UNCHANGED <<n_disc, n_err, n_msg, n_call>>

\* _start_data_thread (lines 299-301).  The model runs one dispatcher
\* process; data_threads counts the DataThread instances started.
init_data ==
    /\ pc["main"] = "init_data"
    /\ data_threads' = data_threads + 1
    /\ pc' = [pc EXCEPT !["main"] = "init_monitor",
                        !["data"] = IF @ = "off" THEN "d_poll" ELSE @]
    /\ UNCHANGED <<active, shutdown_initiated, context, sock_state, sock_role, sock_port, link, inq,
                   sock_of, poller, poller_set, socket_status, monitor_of,
                   monitor_closed, mq, csv_file, n_sock>>
    /\ UNCHANGED <<stack, rc, rv, d_socks, retry_count, result, raised>>
    /\ UNCHANGED <<historyVars, engineVars, toolVars, feedVars, budgetVars>>

\* _init_socket_monitoring without error (lines 316-337), then
\* _connection_ready.set() and return (lines 164-166).  A monitor socket
\* reports the events that happen after it is attached.
init_monitor_ok ==
    /\ pc["main"] = "init_monitor"
    /\ monitor_of' = sock_of
    /\ mq' = [r \in Roles |-> <<>>]
    /\ pc' = [t \in Threads |->
                IF t = "main" THEN "idle"
                ELSE IF t \in Monitors THEN "m_loop" ELSE pc[t]]
    /\ UNCHANGED <<active, shutdown_initiated, context, sock_state, sock_role, sock_port, link, inq,
                   sock_of, poller, poller_set, socket_status, monitor_closed,
                   csv_file, data_threads, n_sock>>
    /\ UNCHANGED <<stack, rc, rv, d_socks, retry_count, result, raised>>
    /\ UNCHANGED <<historyVars, engineVars, toolVars, feedVars, budgetVars>>

\* get_monitor_socket() of the first socket raising zmq.ZMQError (line 316,
\* re-raised at 341-343): the attempt is retried with the data thread of
\* this attempt left running.
init_monitor_fail ==
    /\ pc["main"] = "init_monitor"
    /\ n_fail < MaxFails
    /\ n_fail' = n_fail + 1
    /\ \E closed \in BOOLEAN : RetryAfterError({}, closed)
    /\ UNCHANGED <<active, shutdown_initiated, sock_role, sock_port, sock_of, poller, poller_set,
                   socket_status, monitor_of, monitor_closed, csv_file, data_threads,
                   n_sock>>
    /\ UNCHANGED <<stack, rc, rv, d_socks, result, raised>>
    /\ UNCHANGED <<attempts, sleeps, handed, call, elapsed, queued_at_call,
                   unhealthy_at_call, reconn_ok, reconn_failed, rc_attempts, shutdowns, seen_connected, engineVars, toolVars, feedVars>>
    /\ UNCHANGED <<n_disc, n_err, n_msg, n_call>>

Open == init_loop \/ init_sockets_ok \/ init_data \/ init_monitor_ok
OpenFail == (\E k \in 0..3 : init_sockets_fail(k)) \/ init_monitor_fail


\* ------------------------------------------------------------ poller.poll
\* poll raises zmq.ZMQError when a registered socket is closed or the context
\* is gone; otherwise it returns the registered sockets that have a message,
\* after at most poll_timeout.
PollFails == context # "open" \/ \E s \in poller : sock_state[s] # "open"
Ready == {s \in poller : inq[s] > 0}

\* ---------------------------------------------------------------- receive
\* Entry of receive(timeout) (lines 516-520): refused on an unhealthy reply
\* channel, else the wait loop starts.
receive_enter(t, timeout, bounded, back) ==
    IF ~is_pull_connected
    THEN /\ result' = [result EXCEPT ![t] = None]
         /\ Goto(t, back)
         /\ UNCHANGED <<stack, rv>>
    ELSE /\ Call(t, "recv_loop", back)
         /\ rv' = [rv EXCEPT ![t] = [timeout |-> timeout, bounded |-> bounded,
                                     socks |-> {}]]
         /\ UNCHANGED result

\* return from receive with value v
receive_return(t, v) ==
    /\ result' = [result EXCEPT ![t] = v]
    /\ rv' = [rv EXCEPT ![t].socks = {}]
    /\ Return(t)

\* One pass of the loop head (lines 521-529): the test of self.active, the
\* timeout test, then the poll.  A poll that finds nothing lasts poll_timeout
\* and is followed by the sleep of line 541.
recv_loop(t) ==
    /\ pc[t] = "recv_loop"
    /\ IF ~active \/ (rv[t].bounded /\ t = "main" /\ elapsed > rv[t].timeout)
       THEN /\ receive_return(t, None)
            /\ UNCHANGED <<rc, rc_attempts, elapsed>>
       ELSE IF PollFails
       THEN /\ handle_disconnection(t, "pull", "recv_none")
            /\ UNCHANGED <<rv, result, elapsed>>
       ELSE IF Ready # {}
       THEN /\ rv' = [rv EXCEPT ![t].socks = Ready]
            /\ Goto(t, "recv_read")
            /\ UNCHANGED <<stack, rc, rc_attempts, result, elapsed>>
       ELSE /\ elapsed' = IF t = "main" THEN elapsed + poll_timeout + sleep_delay
                          ELSE elapsed
            /\ UNCHANGED <<pc, stack, rv, rc, rc_attempts, result>>
    /\ UNCHANGED sessionVars
    /\ UNCHANGED <<d_socks, retry_count, raised>>
    /\ UNCHANGED <<attempts, delays, sleeps, handed, call, queued_at_call,
                   unhealthy_at_call, reconn_ok, reconn_failed, shutdowns, seen_connected, engineVars, toolVars, feedVars, released>>
    /\ UNCHANGED budgetVars

\* if self.pull_sock in socks: msg = self.pull_sock.recv_string(zmq.DONTWAIT)
\* (lines 530-539): a message is returned; EAGAIN (nothing left to read)
\* falls through to the sleep; any other ZMQError reconnects the reply
\* channel and leaves the loop.
recv_read(t) ==
    /\ pc[t] = "recv_read"
    /\ LET s == sock_of["pull"] IN
       IF s \notin rv[t].socks
       THEN /\ Goto(t, "recv_sleep")
            /\ UNCHANGED <<stack, rv, rc, rc_attempts, result, inq, n_err>>
       ELSE IF sock_state[s] # "open" \/ context # "open"
       THEN /\ handle_disconnection(t, "pull", "recv_none")
            /\ UNCHANGED <<rv, result, inq, n_err>>
       ELSE \/ /\ inq[s] > 0
               /\ inq' = [inq EXCEPT ![s] = @ - 1]
               /\ receive_return(t, "msg")
               /\ UNCHANGED <<rc, rc_attempts, n_err>>
            \/ /\ inq[s] = 0
               /\ Goto(t, "recv_sleep")
               /\ UNCHANGED <<stack, rv, rc, rc_attempts, result, inq, n_err>>
            \/ /\ n_err < MaxErrors
               /\ n_err' = n_err + 1
               /\ handle_disconnection(t, "pull", "recv_none")
               /\ UNCHANGED <<rv, result, inq>>
    /\ UNCHANGED <<active, shutdown_initiated, context, sock_state, sock_role, sock_port, link,
                   sock_of, poller, poller_set, socket_status, monitor_of,
                   monitor_closed, mq, csv_file, data_threads, n_sock>>
    /\ UNCHANGED <<d_socks, retry_count, raised>>
    /\ UNCHANGED <<attempts, delays, sleeps, handed, call, elapsed, queued_at_call,
                   unhealthy_at_call, reconn_ok, reconn_failed, shutdowns, seen_connected, engineVars, toolVars, feedVars, released>>
    /\ UNCHANGED <<n_disc, n_fail, n_msg, n_call>>

\* time.sleep(self.sleep_delay) (line 541)
recv_sleep(t) ==
    /\ pc[t] = "recv_sleep"
    /\ elapsed' = IF t = "main" THEN elapsed + sleep_delay ELSE elapsed
    /\ rv' = [rv EXCEPT ![t].socks = {}]
    /\ Goto(t, "recv_loop")
    /\ UNCHANGED sessionVars
    /\ UNCHANGED <<stack, rc, d_socks, retry_count, result, raised>>
    /\ UNCHANGED <<attempts, delays, sleeps, handed, call, queued_at_call,
                   unhealthy_at_call, reconn_ok, reconn_failed, rc_attempts,
                   shutdowns, seen_connected, engineVars, toolVars, feedVars, released>>
    /\ UNCHANGED budgetVars

\* break after the reconnection, then return None (lines 538-543)
recv_none(t) ==
    /\ pc[t] = "recv_none"
    /\ receive_return(t, None)
    /\ UNCHANGED sessionVars
    /\ UNCHANGED <<rc, d_socks, retry_count, raised>>
    /\ UNCHANGED <<historyVars, engineVars, toolVars, feedVars, budgetVars>>

Receive(t) == recv_loop(t) \/ recv_read(t) \/ recv_sleep(t) \/ recv_none(t)

\* The caller invokes receive(timeout) with a timeout in use in the scripts.
receive_call ==
    /\ pc["main"] = "idle"
    /\ n_call < MaxCalls
    /\ n_call' = n_call + 1
    /\ call' = "receive"
    /\ elapsed' = 0
    /\ queued_at_call' = (is_pull_connected /\ sock_of["pull"] \in Ready)
    /\ unhealthy_at_call' = ~is_pull_connected
    /\ \E timeout \in Timeouts : receive_enter("main", timeout, TRUE, "idle")
    /\ UNCHANGED sessionVars
    /\ UNCHANGED <<rc, d_socks, retry_count, raised>>
    /\ UNCHANGED <<attempts, delays, sleeps, handed, reconn_ok,
                   reconn_failed, rc_attempts, shutdowns, seen_connected, engineVars, toolVars, feedVars, released>>
    /\ UNCHANGED <<n_disc, n_err, n_fail, n_msg>>


\* -------------------------------------------------------------- _data_loop
\* Loop test (line 557).
data_stop ==
    /\ pc["data"] = "d_poll"
    /\ ~Running
    /\ Goto("data", "stopped")
    /\ data_threads' = 0
    /\ UNCHANGED <<active, shutdown_initiated, context, sock_state, sock_role, sock_port, link, inq,
                   sock_of, poller, poller_set, socket_status, monitor_of,
                   monitor_closed, mq, csv_file, n_sock>>
    /\ UNCHANGED <<stack, rc, rv, d_socks, retry_count, result, raised>>
    /\ UNCHANGED <<historyVars, engineVars, toolVars, feedVars, budgetVars>>

\* socks = dict(self.poller.poll(self.poll_timeout)) (line 559) returning
\* ready sockets.  A poll that raises, or that times out with nothing ready,
\* ends the iteration with no change of state.
data_poll ==
    /\ pc["data"] = "d_poll"
    /\ Running
    /\ ~PollFails
    /\ Ready # {}
    /\ d_socks' = Ready
    /\ Goto("data", "d_pull")
    /\ UNCHANGED sessionVars
    /\ UNCHANGED <<stack, rc, rv, retry_count, result, raised>>
    /\ UNCHANGED <<historyVars, engineVars, toolVars, feedVars, budgetVars>>

\* if self.pull_sock in socks: msg = self.receive() (lines 562-563)
data_pull ==
    /\ pc["data"] = "d_pull"
    /\ IF sock_of["pull"] \in d_socks
       THEN receive_enter("data", 0, FALSE, "d_msg")
       ELSE Goto("data", "d_sub") /\ UNCHANGED <<stack, rv, result>>
    /\ UNCHANGED sessionVars
    /\ UNCHANGED <<rc, d_socks, retry_count, raised>>
    /\ UNCHANGED <<historyVars, engineVars, toolVars, feedVars, budgetVars>>

\* if msg: self._process_message(msg) (lines 564-565); the handler is the
\* subclass's.
data_msg ==
    /\ pc["data"] = "d_msg"
    /\ Goto("data", "d_sub")
    /\ UNCHANGED sessionVars
    /\ UNCHANGED <<stack, rc, rv, d_socks, retry_count, result, raised>>
    /\ UNCHANGED <<historyVars, engineVars, toolVars, feedVars, budgetVars>>

\* if self.sub_sock in socks: recv_string(DONTWAIT) and
\* _process_stream_message; EAGAIN is ignored, any other ZMQError reconnects
\* the feed channel (lines 568-575).
data_sub ==
    /\ pc["data"] = "d_sub"
    /\ d_socks' = {}
    /\ LET s == sock_of["sub"] IN
       IF s \notin d_socks
       THEN /\ Goto("data", "d_poll")
            /\ UNCHANGED <<stack, rc, rc_attempts, inq, n_err>>
       ELSE IF sock_state[s] # "open" \/ context # "open"
       THEN /\ handle_disconnection("data", "sub", "d_poll")
            /\ UNCHANGED <<inq, n_err>>
       ELSE \/ /\ inq' = [inq EXCEPT ![s] = IF @ > 0 THEN @ - 1 ELSE 0]
               /\ Goto("data", "d_poll")
               /\ UNCHANGED <<stack, rc, rc_attempts, n_err>>
            \/ /\ n_err < MaxErrors
               /\ n_err' = n_err + 1
               /\ handle_disconnection("data", "sub", "d_poll")
               /\ UNCHANGED inq
    /\ UNCHANGED <<active, shutdown_initiated, context, sock_state, sock_role, sock_port, link,
                   sock_of, poller, poller_set, socket_status, monitor_of,
                   monitor_closed, mq, csv_file, data_threads, n_sock>>
    /\ UNCHANGED <<rv, retry_count, result, raised>>
    /\ UNCHANGED <<attempts, delays, sleeps, handed, call, elapsed, queued_at_call,
                   unhealthy_at_call, reconn_ok, reconn_failed, shutdowns, seen_connected, engineVars, toolVars, feedVars, released>>
    /\ UNCHANGED <<n_disc, n_fail, n_msg, n_call>>

DataLoop == data_stop \/ data_poll \/ data_pull \/ data_msg \/ data_sub

\* ------------------------------------------------------------------- send
\* The caller invokes send(message) (lines 477-481): refused when the command
\* channel is not connected.
send_call ==
    /\ pc["main"] = "idle"
    /\ n_call < MaxCalls
    /\ n_call' = n_call + 1
    /\ call' = "send"
    /\ sleeps' = 0
    /\ handed' = 0
    /\ unhealthy_at_call' = ~is_push_connected
    /\ IF ~is_push_connected
       THEN /\ result' = [result EXCEPT !["main"] = "False"]
            /\ UNCHANGED <<pc, retry_count>>
       ELSE /\ retry_count' = 0
            /\ Goto("main", "send_try")
            /\ UNCHANGED result
    /\ UNCHANGED sessionVars
    /\ UNCHANGED <<stack, rc, rv, d_socks, raised>>
    /\ UNCHANGED <<attempts, delays, elapsed, queued_at_call, reconn_ok,
                   reconn_failed, rc_attempts, shutdowns, seen_connected, engineVars, toolVars, feedVars, released>>
    /\ UNCHANGED <<n_disc, n_err, n_fail, n_msg>>

\* The loop test of send (line 482).
SendLoopTest == retry_count <= max_retries /\ active

\* One pass of the retry loop (lines 482-496): send_string(DONTWAIT) hands
\* the message over, or raises EAGAIN (sleep retry_delay, next pass), or
\* raises another ZMQError (reconnect the command channel, leave the loop).
\* A closed socket or a destroyed context always raises the latter.
send_try ==
    /\ pc["main"] = "send_try"
    /\ LET s == sock_of["push"] IN
       IF ~SendLoopTest
       THEN /\ result' = [result EXCEPT !["main"] = "False"]
            /\ Goto("main", "idle")
            /\ UNCHANGED <<stack, rc, rc_attempts, retry_count, sleeps, handed, n_err>>
       ELSE IF sock_state[s] # "open" \/ context # "open"
       THEN /\ retry_count' = retry_count + 1
            /\ handle_disconnection("main", "push", "send_fail")
            /\ UNCHANGED <<result, sleeps, handed, n_err>>
       ELSE \/ /\ handed' = handed + 1
               /\ result' = [result EXCEPT !["main"] = "True"]
               /\ Goto("main", "idle")
               /\ UNCHANGED <<stack, rc, rc_attempts, retry_count, sleeps, n_err>>
            \/ /\ retry_count' = retry_count + 1
               /\ sleeps' = sleeps + 1
               /\ UNCHANGED <<pc, stack, rc, rc_attempts, result, handed, n_err>>
            \/ /\ n_err < MaxErrors
               /\ n_err' = n_err + 1
               /\ retry_count' = retry_count + 1
               /\ handle_disconnection("main", "push", "send_fail")
               /\ UNCHANGED <<result, sleeps, handed>>
    /\ UNCHANGED sessionVars
    /\ UNCHANGED <<rv, d_socks, raised>>
    /\ UNCHANGED <<attempts, delays, call, elapsed, queued_at_call,
                   unhealthy_at_call, reconn_ok, reconn_failed, shutdowns, seen_connected, engineVars, toolVars, feedVars, released>>
    /\ UNCHANGED <<n_disc, n_fail, n_msg, n_call>>

\* After the reconnection the loop goes on and sends on the new handle.
send_fail_mut ==
    /\ pc["main"] = "send_fail"
    /\ Goto("main", "send_try")
    /\ UNCHANGED sessionVars
    /\ UNCHANGED <<stack, rc, rv, d_socks, retry_count, result, raised>>
    /\ UNCHANGED <<historyVars, engineVars, toolVars, feedVars, budgetVars>>
\* break, then "Failed to send message" and return False (lines 496-499)
send_fail ==
    /\ pc["main"] = "send_fail"
    /\ result' = [result EXCEPT !["main"] = "False"]
    /\ Goto("main", "idle")
    /\ UNCHANGED sessionVars
    /\ UNCHANGED <<stack, rc, rv, d_socks, retry_count, raised>>
    /\ UNCHANGED <<historyVars, engineVars, toolVars, feedVars, budgetVars>>

Send == send_call \/ send_try \/ send_fail


\* --------------------------------------------------------------- shutdown
\* request_history opening the CSV file of the historical handler
\* (historical_data_handler.py lines 74-77); a caller uses the handler
\* before it shuts it down.
request_history_open ==
    /\ pc["main"] = "idle"
    /\ ~shutdown_initiated
    /\ csv_file = "none"
    /\ csv_file' = "open"
    /\ UNCHANGED <<active, shutdown_initiated, context, sock_state, sock_role, sock_port, link, inq,
                   sock_of, poller, poller_set, socket_status, monitor_of,
                   monitor_closed, mq, data_threads, n_sock>>
    /\ UNCHANGED <<threadVars, historyVars, engineVars, toolVars, feedVars, budgetVars>>

\* csv_file.close(): closing a closed file does nothing.
CloseFile(f) == IF f = "open" THEN "closed" ELSE f

\* if self._shutdown_initiated: return  (lines 620-621)
NoShutdownGuard_mut == FALSE
ShutdownGuard == shutdown_initiated

\* The caller invokes shutdown(): the historical handler closes its CSV file
\* (historical_data_handler.py lines 196-203), then MT4BaseConnector.shutdown
\* returns at once if a shutdown was initiated, else sets the flags
\* (lines 620-625).
shutdown_call ==
    /\ pc["main"] = "idle"
    /\ n_call < MaxCalls
    /\ n_call' = n_call + 1
    /\ call' = "shutdown"
    /\ csv_file' = CloseFile(csv_file)
    /\ released' = IF csv_file = "open" THEN released + 1 ELSE released
    /\ IF ShutdownGuard
       THEN UNCHANGED <<pc, shutdown_initiated, active>>
       ELSE /\ shutdown_initiated' = TRUE
            /\ active' = FALSE
            /\ Goto("main", "sd_monitors")
    /\ UNCHANGED <<context, sock_state, sock_role, sock_port, link, inq, sock_of, poller,
                   poller_set, socket_status, monitor_of, monitor_closed, mq,
                   data_threads, n_sock>>
    /\ UNCHANGED <<stack, rc, rv, d_socks, retry_count, result, raised>>
    /\ UNCHANGED <<attempts, delays, sleeps, handed, elapsed, queued_at_call,
                   unhealthy_at_call, reconn_ok, reconn_failed, rc_attempts, shutdowns, seen_connected, engineVars, toolVars, feedVars>>
    /\ UNCHANGED <<n_disc, n_err, n_fail, n_msg>>

\* Close the monitor sockets that are not closed yet (lines 628-633).
shutdown_monitors ==
    /\ pc["main"] = "sd_monitors"
    /\ monitor_closed' = [r \in Roles |-> monitor_closed[r] \/ monitor_of[r] # 0]
    /\ released' = released
                   + Cardinality({r \in Roles : monitor_of[r] # 0 /\ ~monitor_closed[r]})
    /\ Goto("main", "sd_join")
    /\ UNCHANGED <<active, shutdown_initiated, context, sock_state, sock_role, sock_port, link, inq,
                   sock_of, poller, poller_set, socket_status, monitor_of, mq,
                   csv_file, data_threads, n_sock>>
    /\ UNCHANGED <<stack, rc, rv, d_socks, retry_count, result, raised>>
    /\ UNCHANGED <<attempts, delays, sleeps, handed, call, elapsed, queued_at_call,
                   unhealthy_at_call, reconn_ok, reconn_failed, rc_attempts, shutdowns, seen_connected, engineVars, toolVars, feedVars>>
    /\ UNCHANGED budgetVars

\* thread.join() with no timeout: returns only when every thread has ended.
shutdown_join_mut ==
    /\ pc["main"] = "sd_join"
    /\ \A t \in Threads \ {"main"} : pc[t] \in {"off", "stopped"}
    /\ Goto("main", "sd_sockets")
    /\ UNCHANGED sessionVars
    /\ UNCHANGED <<stack, rc, rv, d_socks, retry_count, result, raised>>
    /\ UNCHANGED <<historyVars, engineVars, toolVars, feedVars, budgetVars>>
\* thread.join(timeout=2.0) for every thread still alive (lines 636-643): each
\* join ends when the thread ends or when the timeout expires.
shutdown_join ==
    /\ pc["main"] = "sd_join"
    /\ Goto("main", "sd_sockets")
    /\ UNCHANGED sessionVars
    /\ UNCHANGED <<stack, rc, rv, d_socks, retry_count, result, raised>>
    /\ UNCHANGED <<historyVars, engineVars, toolVars, feedVars, budgetVars>>

\* _cleanup_sockets (lines 646, 656-663): close the three sockets the
\* attributes name unless already closed.
shutdown_sockets ==
    /\ pc["main"] = "sd_sockets"
    /\ \E closed \in BOOLEAN : CloseSockets({sock_of[r] : r \in Roles}, closed)
    /\ Goto("main", "sd_context")
    /\ UNCHANGED <<active, shutdown_initiated, context, sock_role, sock_port, sock_of, poller,
                   poller_set, socket_status, monitor_of, monitor_closed, csv_file,
                   data_threads, n_sock>>
    /\ UNCHANGED <<stack, rc, rv, d_socks, retry_count, result, raised>>
    /\ UNCHANGED <<attempts, delays, sleeps, handed, call, elapsed, queued_at_call,
                   unhealthy_at_call, reconn_ok, reconn_failed, rc_attempts, shutdowns, seen_connected, engineVars, toolVars, feedVars>>
    /\ UNCHANGED budgetVars

\* self.context.destroy(linger=0) (lines 649-654): closes every socket still
\* open in the context and terminates it.
shutdown_context ==
    /\ pc["main"] = "sd_context"
    /\ \E closed \in BOOLEAN :
          /\ CloseSockets({s \in Socks : sock_state[s] = "open"}, closed)
    /\ context' = "destroyed"
    /\ shutdowns' = shutdowns + 1
    /\ Goto("main", "idle")
    /\ UNCHANGED <<active, shutdown_initiated, sock_role, sock_port, sock_of, poller,
                   poller_set, socket_status, monitor_of, monitor_closed, csv_file,
                   data_threads, n_sock>>
    /\ UNCHANGED <<stack, rc, rv, d_socks, retry_count, result, raised>>
    /\ UNCHANGED <<attempts, delays, sleeps, handed, call, elapsed, queued_at_call,
                   unhealthy_at_call, reconn_ok, reconn_failed, rc_attempts,
                   seen_connected, engineVars, toolVars, feedVars>>
    /\ UNCHANGED budgetVars

Shutdown == shutdown_call \/ shutdown_monitors \/ shutdown_join
            \/ shutdown_sockets \/ shutdown_context

\* ---------------------------------------------------------- specifications
Transport == \E s \in Socks : PeerConnect(s) \/ PeerDisconnect(s) \/ Deliver(s)
MonitorThreads == \E t \in Monitors : Monitor(t) \/ Reconnect(t)

\* The whole session: every thread and the transport.
Next ==
    \/ Open \/ OpenFail
    \/ Transport
    \/ MonitorThreads
    \/ DataLoop \/ Receive("data") \/ Reconnect("data")
    \/ Send \/ receive_call \/ Receive("main") \/ Reconnect("main")
    \/ request_history_open \/ Shutdown

Spec == Init /\ [][Next]_vars


\* Opening a session: construction with its failures, the transport
\* connecting, the monitor threads reading their events.
NextOpen ==
    \/ Open \/ OpenFail
    \/ \E s \in Socks : PeerConnect(s)
    \/ \E t \in Monitors : monitor_event(t)

SpecOpen == Init /\ [][NextOpen]_vars

\* Disconnects seen by the monitor threads and the reconnections they run.
NextReconnect ==
    \/ Open
    \/ \E s \in Socks : PeerConnect(s) \/ PeerDisconnect(s)
    \/ \E t \in Monitors : monitor_event(t) \/ Reconnect(t)

SpecReconnect == Init /\ [][NextReconnect]_vars

\* The caller sending on an opened session.
NextSend ==
    \/ Open
    \/ \E s \in Socks : PeerConnect(s)
    \/ \E t \in Monitors : monitor_event(t)
    \/ Send \/ Reconnect("main")

SpecSend == Init /\ [][NextSend]_vars

\* The caller receiving while the dispatcher thread runs.
NextReceive ==
    \/ Open
    \/ \E s \in Socks : PeerConnect(s) \/ Deliver(s)
    \/ \E t \in Monitors : monitor_event(t)
    \/ data_poll \/ data_pull \/ data_msg \/ data_sub
    \/ Receive("data") \/ Reconnect("data")
    \/ receive_call \/ Receive("main") \/ Reconnect("main")

SpecReceive == Init /\ [][NextReceive]_vars

\* The dispatcher thread scheduled fairly while the caller receives: a
\* started thread that can take a step is eventually run.  The caller and the
\* peer are under no obligation to act.
NextFeed ==
    \/ Open
    \/ \E s \in Socks : sock_role[s] \in {"pull", "sub"} /\ PeerConnect(s)
    \/ \E s \in Socks : sock_role[s] = "pull" /\ Deliver(s)
    \/ \E s \in Socks : Publish(s)
    \/ monitor_event("mon_pull")
    \/ data_poll \/ data_pull \/ data_msg \/ data_sub
    \/ receive_call
    \/ \E t \in {"main", "data"} : recv_loop(t) \/ recv_read(t) \/ recv_sleep(t)

SpecFeed ==
    /\ Init /\ [][NextFeed]_vars
    /\ WF_vars(data_poll \/ data_pull \/ data_msg \/ data_sub
                 \/ recv_loop("data") \/ recv_read("data") \/ recv_sleep("data"))

\* The caller shutting the session down, once or more.
NextShutdown ==
    \/ Open
    \/ \E s \in Socks : PeerConnect(s)
    \/ \E t \in Monitors : Monitor(t)
    \/ data_stop
    \/ request_history_open \/ Shutdown

SpecShutdown == Init /\ [][NextShutdown]_vars

\* The caller's thread keeps running once it is inside shutdown(): each step
\* of the teardown that can be taken is eventually taken.  Neither the call
\* of shutdown() nor the other threads are under an obligation.
SpecTeardown ==
    /\ Init /\ [][NextShutdown]_vars
    /\ WF_vars(shutdown_monitors \/ shutdown_join \/ shutdown_sockets \/ shutdown_context)


\* A shutdown while the dispatcher receives or reconnects the reply channel;
\* the session's threads are scheduled fairly.
NextCancel ==
    \/ Open
    \/ \E s \in Socks : sock_role[s] = "pull" /\ (PeerConnect(s) \/ Deliver(s))
    \/ monitor_event("mon_pull")
    \/ \E t \in Monitors : monitor_stop(t)
    \/ DataLoop \/ Reconnect("data")
    \/ recv_loop("data") \/ recv_read("data") \/ recv_none("data")
    \/ Shutdown

SpecCancel ==
    /\ Init /\ [][NextCancel]_vars
    /\ \A t \in Monitors : WF_vars(Monitor(t))
    /\ WF_vars(DataLoop \/ Receive("data") \/ Reconnect("data"))

\* ============================================================================
\* The historical acquisition engine.  A timestamp is the number of minutes
\* since a Monday 00:00; the text form "%Y.%m.%d %H:%M" the terminal sends
\* is fixed-width, so that comparing two texts, comparing the parsed
\* datetimes and comparing the minute counts agree.  A row (candle) is
\* [time, val]; val stands for the OHLCV fields, and the closes of two vals
\* differ by a few percent at most.
\* ============================================================================

\* ------------------------------------------------------ timeframe validation
\* config/timeframes.json and the tf_map of verify_timeframe.
Timeframes == {"M1", "M5", "M15", "M30", "H1", "H4", "D1", "W1", "MN1"}

\* tf_map of fetch_launcher.verify_timeframe: seconds -> name;
\* f"UNKNOWN({n}s)" is no catalog name.
tf_map(seconds) ==
    CASE seconds = 60 -> "M1" [] seconds = 300 -> "M5" [] seconds = 900 -> "M15"
      [] seconds = 1800 -> "M30" [] seconds = 3600 -> "H1" [] seconds = 14400 -> "H4"
      [] seconds = 86400 -> "D1" [] seconds = 604800 -> "W1"
      [] seconds = 2592000 -> "MN1" [] OTHER -> "UNKNOWN"

\* tf_map of fetch_launcher2.verify_timeframe: minutes -> name; f"M{n}" for
\* an n outside the map is no catalog name.
tf_map2(minutes) ==
    CASE minutes = 1 -> "M1" [] minutes = 5 -> "M5" [] minutes = 15 -> "M15"
      [] minutes = 30 -> "M30" [] minutes = 60 -> "H1" [] minutes = 240 -> "H4"
      [] minutes = 1440 -> "D1" [] minutes = 10080 -> "W1"
      [] minutes = 43200 -> "MN1" [] OTHER -> "UNKNOWN"

\* Counter(diffs).most_common(1)[0][0]: the value with the highest count,
\* the first one encountered among equals.
most_common(diffs) ==
    LET count(x) == Cardinality({i \in DOMAIN diffs : diffs[i] = x})
        first == CHOOSE i \in DOMAIN diffs :
                    /\ \A j \in DOMAIN diffs : count(diffs[j]) <= count(diffs[i])
                    /\ \A j \in 1..(i - 1) : count(diffs[j]) < count(diffs[i])
    IN diffs[first]

\* timedelta.seconds of a difference of d minutes: the seconds within the
\* day of the normalised timedelta (days, 0 <= seconds < 86400).
timedelta_seconds(d) == (d * 60) % 86400

\* fetch_launcher.verify_timeframe(data, requested_tf).
verify_timeframe(data, requested_tf) ==
    IF Len(data) < 2
    THEN [ok |-> FALSE, detected |-> "INSUFFICIENT_DATA"]
    ELSE LET diffs == [i \in 1..(Len(data) - 1) |->
                          timedelta_seconds(data[i + 1].time - data[i].time)]
             detected_tf == tf_map(most_common(diffs))
         IN [ok |-> detected_tf = requested_tf, detected |-> detected_tf]

\* expected_minutes of fetch_launcher2.verify_timeframe (lines 264-266):
\* int(requested_tf[1:]) for a name starting with 'M', which raises
\* ValueError for "MN1" (-1 here).
expected_minutes(requested_tf) ==
    CASE requested_tf = "M1" -> 1 [] requested_tf = "M5" -> 5
      [] requested_tf = "M15" -> 15 [] requested_tf = "M30" -> 30
      [] requested_tf = "MN1" -> -1
      [] requested_tf = "H1" -> 60 [] requested_tf = "H4" -> 240
      [] requested_tf = "D1" -> 1440 [] requested_tf = "W1" -> 10080
      [] OTHER -> 1

\* fetch_launcher2.verify_timeframe(data, requested_tf).
verify_timeframe2(data, requested_tf) ==
    IF Len(data) < 2
    THEN [ok |-> TRUE, detected |-> requested_tf]
    ELSE LET times == SortSeq([i \in 1..Len(data) |-> data[i].time],
                              LAMBDA a, b : a < b)
             diffs == [i \in 1..(Len(times) - 1) |-> times[i + 1] - times[i]]
             mc == most_common(diffs)
             detected_tf == tf_map2(mc)
             diff == mc - expected_minutes(requested_tf)
         IN IF detected_tf = "D1" THEN [ok |-> TRUE, detected |-> "D1"]
            ELSE IF expected_minutes(requested_tf) = -1
                 THEN [ok |-> TRUE, detected |-> requested_tf]
            ELSE IF diff <= 1 /\ diff >= -1
                 THEN [ok |-> TRUE, detected |-> requested_tf]
            ELSE [ok |-> FALSE, detected |-> detected_tf]

\* The validation the running acquisition code applies before it saves:
\* verify_timeframe in the two launchers, none in
\* MT4HistoricalDataHandler._fetch_single_timeframe.
Verify(data, requested_tf) ==
    CASE engine = "launcher" -> verify_timeframe(data, requested_tf)
      [] engine = "launcher2" -> verify_timeframe2(data, requested_tf)
      [] OTHER -> [ok |-> TRUE, detected |-> requested_tf]

\* ------------------------------------------------------------------- merge
TimesOf(rows) == {rows[i].time : i \in DOMAIN rows}
\* The row a dict built from rows maps t to: the last row with that key.
LastWith(rows, t) ==
    rows[CHOOSE i \in DOMAIN rows :
            rows[i].time = t /\ \A j \in DOMAIN rows : rows[j].time = t => j <= i]

\* fetch_launcher.save_data lines 255-261: all_data = existing keyed by time,
\* updated with data keyed by time; sorted by the parsed time.
sorted_data_mut(existing, data) == existing \o data
sorted_data(existing, data) ==
    LET T == TimesOf(existing) \cup TimesOf(data)
        order == CHOOSE f \in [1..Cardinality(T) -> T] :
                    \A i, j \in 1..Cardinality(T) : i < j => f[i] < f[j]
    IN [i \in 1..Cardinality(T) |->
            IF order[i] \in TimesOf(data) THEN LastWith(data, order[i])
            ELSE LastWith(existing, order[i])]

\* expected_interval of fetch_launcher2.verify_new_data (line 526):
\* int(timeframe[1:]) for a name starting with 'M' (ValueError for "MN1",
\* -1 here), 1 otherwise.
expected_interval(tf) ==
    CASE tf = "M1" -> 1 [] tf = "M5" -> 5 [] tf = "M15" -> 15 [] tf = "M30" -> 30
      [] tf = "MN1" -> -1 [] OTHER -> 1

\* fetch_launcher2.verify_new_data(symbol, timeframe, new_data, existing_data)
\* with existing_data sorted: the time gap between the last existing row and
\* the first new row; an exception counts as consistent (line 563).
verify_new_data(tf, data, existing) ==
    \/ existing = <<>>
    \/ expected_interval(tf) = -1
    \/ LET last_good_time == CHOOSE t \in TimesOf(existing) :
                                \A u \in TimesOf(existing) : u <= t
       IN data[1].time - last_good_time <= expected_interval(tf) * 3

\* MT4HistoricalDataHandler.get_last_timestamp: the time of the last line,
\* None (-1 here) for a missing file or a file with the header only.
handler_last_timestamp(f) ==
    IF f.exists /\ f.rows # <<>> THEN f.rows[Len(f.rows)].time ELSE -1

\* MT4HistoricalDataHandler.save_data lines 138-146: the rows that are
\* appended, in payload order.
new_rows(f, data) ==
    SelectSeq(data, LAMBDA row : row.time > handler_last_timestamp(f))

\* --------------------------------------------------------------- freshness
DayOf(t) == t \div 1440
MinuteOfDay(t) == t % 1440
\* date.weekday(): 0 = Monday ... 6 = Sunday.
Weekday(day) == day % 7

\* get_last_timestamp of the launchers: max of the valid timestamps, None
\* (-1 here) when there is none.
get_last_timestamp(f) ==
    IF f.exists /\ f.rows # <<>>
    THEN CHOOSE t \in TimesOf(f.rows) : \A u \in TimesOf(f.rows) : u <= t
    ELSE -1

\* fetch_launcher.needs_update(filepath, timeframe), at time t.
needs_update(f, tf, t) ==
    IF get_last_timestamp(f) = -1 THEN TRUE
    ELSE LET last_date == DayOf(get_last_timestamp(f))
             adjusted_now == t + 60
             adjusted_now_date == DayOf(adjusted_now)
             adjusted_now_weekday == Weekday(adjusted_now_date)
             last_friday == adjusted_now_date - (adjusted_now_weekday - 4)
         IN IF tf = "D1" THEN last_date < adjusted_now_date
            ELSE IF tf \in {"M1", "M5", "M15", "M30", "H1", "H4"}
                 THEN IF adjusted_now_weekday < 5
                      THEN last_date < adjusted_now_date
                      ELSE last_date < last_friday
            ELSE last_date < adjusted_now_date

\* now.hour < 21 or (now.hour == 21 and now.minute < 55)
BeforeClose(t) == MinuteOfDay(t) < 21 * 60 + 55

\* minutes of fetch_launcher2.needs_update (line 196): int(timeframe[1:])
\* for a name starting with 'M' (ValueError for "MN1", -1 here), 5 otherwise.
intraday_minutes(tf) ==
    CASE tf = "M1" -> 1 [] tf = "M5" -> 5 [] tf = "M15" -> 15 [] tf = "M30" -> 30
      [] tf = "MN1" -> -1 [] OTHER -> 5

\* fetch_launcher2.needs_update(filepath, timeframe)[0], at time t.
needs_update2(f, tf, t) ==
    IF get_last_timestamp(f) = -1 THEN TRUE
    ELSE LET last_dt == get_last_timestamp(f)
             last_date == DayOf(last_dt)
             today == DayOf(t)
             last_trading_day ==
                 IF Weekday(today) >= 5 THEN today - (Weekday(today) - 4)
                 ELSE IF BeforeClose(t)
                      THEN today - (IF Weekday(today) > 0 THEN 1 ELSE 3)
                 ELSE today
         IN IF last_date > today THEN FALSE
            ELSE IF tf = "D1"
                 THEN IF last_date >= last_trading_day THEN FALSE
                      ELSE IF Weekday(today) >= 5 /\ Weekday(last_date) = 4 THEN FALSE
                      ELSE TRUE
            ELSE IF last_date >= last_trading_day
                 THEN IF intraday_minutes(tf) = -1 THEN TRUE
                      ELSE IF Weekday(today) < 5 /\ BeforeClose(t)
                           THEN (t - last_dt) > intraday_minutes(tf) * 3
                      ELSE FALSE
            ELSE TRUE

\* The freshness decision of the running acquisition code; fetch_and_save of
\* the handler requests every series.
NeedsUpdate(f, tf, t) ==
    CASE engine = "launcher" -> needs_update(f, tf, t)
      [] engine = "launcher2" -> needs_update2(f, tf, t)
      [] OTHER -> TRUE

\* ------------------------------------------------------ acquisition: inputs
\* A payload of n candles spaced exactly p minutes apart, the first at t0.
Spaced(t0, p, n) == [i \in 1..n |-> [time |-> t0 + (i - 1) * p, val |-> "b"]]

\* Seconds in ticks: receive(timeout=15) of fetch_symbol_data and
\* receive(timeout=10) of _fetch_single_timeframe.
ReceiveTimeout == IF engine = "handler" THEN FetchTimeout ELSE LauncherTimeout

\* Ticks receive(timeout) has run when it returns None on a healthy channel
\* without data: the timeout is tested at the loop head only, each pass polls
\* for poll_timeout and sleeps sleep_delay (base_connector.py lines 522-541).
WaitedOut(timeout) ==
    ((timeout \div (poll_timeout + sleep_delay)) + 1) * (poll_timeout + sleep_delay)

\* The forms of a response text: strict JSON; Python literals (single quotes,
\* True/False); two objects concatenated ("}{"); cut off in the middle.
Forms == {"strict", "relaxed", "concatenated", "truncated"}
\* What the text says: _response NOT_AVAILABLE; no _data key; _data = [];
\* a _data that is no list of candles; a _data list of candles.
Kinds == {"not_available", "no_data", "empty", "bad_rows", "rows"}

\* The sanitation pass (fetch_launcher.py lines 304-306): quotes and boolean
\* literals are rewritten, the text is cut at the first "}{".
sanitize(r) ==
    [r EXCEPT !.form = IF @ \in {"relaxed", "concatenated"} THEN "strict" ELSE @]

\* json.loads(response) returns (does not raise).
json_loads_ok_mut(r) == TRUE
json_loads_ok(r) == sanitize(r).form = "strict"

\* The series the current step is about.
Cur == to_update[idx]

\* A session whose constructor has returned: sockets 1..3 are open and
\* connected; the roles of H have had their EVENT_CONNECTED read by the
\* monitor thread, the others connected before the monitor was attached.
SessionOpened(H) ==
    /\ active = TRUE /\ shutdown_initiated = FALSE /\ context = "open"
    /\ sock_state = [s \in Socks |-> IF s <= 3 THEN "open" ELSE "none"]
    /\ sock_role = [s \in Socks |-> IF s <= 3 THEN CreationOrder[s] ELSE "none"]
    /\ sock_port = [s \in Socks |-> IF s <= 3 THEN init_port(CreationOrder[s]) ELSE 0]
    /\ link = [s \in Socks |-> s <= 3]
    /\ inq = [s \in Socks |-> 0]
    /\ sock_of = [r \in Roles |-> IF r = "push" THEN 1 ELSE IF r = "pull" THEN 2 ELSE 3]
    /\ poller = {2, 3} /\ poller_set = TRUE
    /\ socket_status = [r \in Roles |->
                          IF r \in H THEN [connected |-> TRUE, last_event |-> "CONNECTED"]
                          ELSE [connected |-> FALSE, last_event |-> "None"]]
    /\ monitor_of = [r \in Roles |-> IF r = "push" THEN 1 ELSE IF r = "pull" THEN 2 ELSE 3]
    /\ monitor_closed = [r \in Roles |-> FALSE]
    /\ mq = [r \in Roles |-> <<>>]
    /\ pc = [t \in Threads |->
                IF t = "main" THEN "idle" ELSE IF t = "data" THEN "d_poll" ELSE "m_loop"]
    /\ stack = [t \in Threads |-> <<>>]
    /\ rc = [t \in Threads |-> NoRc]
    /\ rv = [t \in Threads |-> NoRv]
    /\ d_socks = {} /\ retry_count = 0
    /\ result = [t \in Threads |-> None]
    /\ raised = "" /\ csv_file = "none" /\ data_threads = 1 /\ n_sock = 3
    /\ attempts = 1 /\ delays = 0 /\ sleeps = 0 /\ handed = 0 /\ call = "none"
    /\ elapsed = 0 /\ queued_at_call = FALSE /\ unhealthy_at_call = FALSE
    /\ reconn_ok = [r \in Roles |-> 0]
    /\ reconn_failed = [r \in Roles |-> {}]
    /\ rc_attempts = [t \in Threads |-> 0]
    /\ shutdowns = 0
    /\ seen_connected = [r \in Roles |-> r \in H]
    /\ released = 0
    /\ n_disc = 0 /\ n_err = 0 /\ n_fail = 0 /\ n_msg = 0 /\ n_call = 0

\* ----------------------------------------------------- acquisition: actions
envVars == <<engine, now, timeframe, answers>>

\* What main keeps of a finished step.
Summary(st, after) ==
    [symbol |-> st.symbol, sent |-> st.sent, got |-> st.got, waited |-> st.waited,
     outcome |-> st.outcome, reported |-> st.reported, error |-> st.error,
     data |-> st.data,
     before |-> st.before, after |-> after]

\* The step returns: to main's loop, or to the caller of save_data.
StepEnd(st, after) ==
    IF st.ret = "call"
    THEN /\ log' = Append(log, Summary(st, after))
         /\ step' = NoStep
         /\ epc' = "idle"
    ELSE /\ step' = st
         /\ epc' = "record"
         /\ UNCHANGED log

\* save_data(symbol, timeframe, data) up to the open() of the series file:
\* fetch_launcher.py lines 242-261, fetch_launcher2.py lines 570-649,
\* historical_data_handler.py lines 138-150.
save_data_begin(st, data) ==
    LET f == files[Cur] IN
    IF engine = "handler"
    THEN IF new_rows(f, data) = <<>>
         THEN /\ StepEnd([st EXCEPT !.outcome = "unchanged"], f)
              /\ UNCHANGED wbuf
         ELSE /\ wbuf' = new_rows(f, data)
              /\ step' = st
              /\ epc' = "save_open"
              /\ UNCHANGED log
    ELSE IF data = <<>> \/ (engine = "launcher2" /\ ~verify_new_data(timeframe, data, f.rows))
         THEN /\ StepEnd([st EXCEPT !.outcome = "failed"], f)
              /\ UNCHANGED wbuf
         ELSE /\ wbuf' = sorted_data(f.rows, data)
              /\ step' = st
              /\ epc' = "save_open"
              /\ UNCHANGED log

\* A caller invokes save_data(symbol, timeframe, data) on the series.
save_call(data) ==
    /\ epc = "idle"
    /\ Len(log) < MaxSaves
    /\ save_data_begin([NoStep EXCEPT !.symbol = Cur, !.ret = "call", !.data = data,
                                      !.before = files[Cur]], data)
    /\ UNCHANGED <<envVars, files, to_update, idx, stats, inflight, replies, resp,
                   judged, verdict>>
    /\ UNCHANGED <<connectorVars, toolVars, feedVars>>

\* open(filepath, "w") of the launchers truncates the file; the handler
\* opens with "a" when the file exists and with "w" otherwise.
save_open ==
    /\ epc = "save_open"
    /\ files' = [files EXCEPT ![Cur] =
                    IF engine = "handler" THEN [exists |-> TRUE, rows |-> @.rows]
                    ELSE [exists |-> TRUE, rows |-> <<>>]]
    /\ epc' = "save_write"
    /\ UNCHANGED <<envVars, to_update, idx, stats, inflight, replies, resp, wbuf, step,
                   log, judged, verdict>>
    /\ UNCHANGED <<connectorVars, toolVars, feedVars>>

\* writer.writerows / f.writelines / to_csv complete and the file is closed.
save_write ==
    /\ epc = "save_write"
    /\ files' = [files EXCEPT ![Cur].rows = @ \o wbuf]
    /\ wbuf' = <<>>
    /\ StepEnd([step EXCEPT !.outcome = "updated"], files'[Cur])
    /\ UNCHANGED <<envVars, to_update, idx, stats, inflight, replies, resp, judged,
                   verdict>>
    /\ UNCHANGED <<connectorVars, toolVars, feedVars>>

\* The write raises (OSError; ValueError of DictWriter) after k rows: the
\* exception leaves save_data and is caught by fetch_symbol_data (line 328),
\* by save_data of fetch_launcher2 (line 675) or by _fetch_single_timeframe
\* (line 128).
save_error(k) ==
    /\ epc = "save_write"
    /\ k < Len(wbuf)
    /\ files' = [files EXCEPT ![Cur].rows = @ \o SubSeq(wbuf, 1, k)]
    /\ wbuf' = <<>>
    /\ StepEnd([step EXCEPT !.outcome = "failed", !.error = TRUE], files'[Cur])
    /\ UNCHANGED <<envVars, to_update, idx, stats, inflight, replies, resp, judged,
                   verdict>>
    /\ UNCHANGED <<connectorVars, toolVars, feedVars>>

\* verify_timeframe(data, requested_tf) applied to a payload.
verify_call ==
    /\ epc = "verify"
    /\ verdict' = [ok |-> Verify(step.data, timeframe).ok,
                   detected |-> Verify(step.data, timeframe).detected,
                   data |-> step.data, requested |-> timeframe]
    /\ epc' = "verified"
    /\ UNCHANGED <<envVars, files, to_update, idx, stats, inflight, replies, resp, wbuf,
                   step, log, judged>>
    /\ UNCHANGED <<connectorVars, toolVars, feedVars>>

\* needs_update(filepath, timeframe) applied to the series file of s.
needs_update_call(s) ==
    /\ epc = "check"
    /\ judged[s] = "none"
    /\ judged' = [judged EXCEPT ![s] =
                    IF NeedsUpdate(files[s], timeframe, now) THEN "stale" ELSE "fresh"]
    /\ UNCHANGED <<envVars, files, epc, to_update, idx, stats, inflight, replies, resp,
                   wbuf, step, log, verdict>>
    /\ UNCHANGED <<connectorVars, toolVars, feedVars>>

\* main, first pass (fetch_launcher.py lines 356-377): the symbols that need
\* an update, in list order.
main_analyze ==
    /\ epc = "analyze"
    /\ judged' = [s \in Symbols |->
                    IF NeedsUpdate(files[s], timeframe, now) THEN "stale" ELSE "fresh"]
    /\ to_update' = SelectSeq([i \in 1..NumSymbols |-> i],
                              LAMBDA s : NeedsUpdate(files[s], timeframe, now))
    /\ stats' = [stats EXCEPT !.needs_update = Len(to_update'),
                              !.up_to_date = NumSymbols - Len(to_update')]
    /\ IF to_update' = <<>>
       THEN epc' = "done" /\ idx' = 0
       ELSE epc' = "fetch" /\ idx' = 1
    /\ UNCHANGED <<envVars, files, inflight, replies, resp, wbuf, step, log, verdict>>
    /\ UNCHANGED <<connectorVars, toolVars, feedVars>>

\* fetch_symbol_data up to receive() (fetch_launcher.py lines 284-294),
\* _fetch_single_timeframe up to receive() (lines 95-103).  send() returns
\* False on an unhealthy command channel or after its retries; the
\* handler's send_historical_data drops that result and returns True.
fetch_begin ==
    /\ epc = "fetch"
    /\ LET st == [NoStep EXCEPT !.symbol = Cur, !.ret = "main", !.before = files[Cur]] IN
       IF engine = "launcher" /\ ~needs_update(files[Cur], timeframe, now)
       THEN /\ step' = [st EXCEPT !.outcome = "updated", !.reported = "up_to_date"]
            /\ epc' = "record"
            /\ UNCHANGED inflight
       ELSE \E ok \in BOOLEAN :
            /\ ok => is_push_connected
            /\ inflight' = IF ok THEN Append(inflight, Cur) ELSE inflight
            /\ IF ok \/ engine = "handler"
               THEN /\ step' = [st EXCEPT !.sent = ok]
                    /\ epc' = "receive"
               ELSE /\ step' = [st EXCEPT !.outcome = "failed"]
                    /\ epc' = "record"
    /\ UNCHANGED <<envVars, files, to_update, idx, stats, replies, resp, wbuf, log,
                   judged, verdict>>
    /\ UNCHANGED <<connectorVars, toolVars, feedVars>>

\* The terminal answers the oldest request it holds.
terminal_reply ==
    /\ inflight # <<>>
    /\ \E a \in answers : replies' = Append(replies, [a EXCEPT !.of = Head(inflight)])
    /\ inflight' = Tail(inflight)
    /\ UNCHANGED <<envVars, files, epc, to_update, idx, stats, resp, wbuf, step, log,
                   judged, verdict>>
    /\ UNCHANGED <<connectorVars, toolVars, feedVars>>

\* The dispatcher thread finds the reply socket ready and takes the message
\* with self.receive() (_data_loop lines 559-565); receive() returns None
\* without reading on an unhealthy reply channel.
data_loop_take ==
    /\ replies # <<>>
    /\ is_pull_connected
    /\ replies' = Tail(replies)
    /\ UNCHANGED <<envVars, files, epc, to_update, idx, stats, inflight, resp, wbuf, step,
                   log, judged, verdict>>
    /\ UNCHANGED <<connectorVars, toolVars, feedVars>>

\* response = connector.receive(timeout) and the test of the result
\* (fetch_launcher.py lines 297-300): None at once on an unhealthy reply
\* channel, the queued response, or None after the wait.
fetch_receive ==
    /\ epc = "receive"
    /\ IF ~is_pull_connected
       THEN /\ step' = [step EXCEPT !.outcome = "failed"]
            /\ epc' = "record"
            /\ UNCHANGED <<replies, resp>>
       ELSE IF replies # <<>>
       THEN /\ resp' = Head(replies)
            /\ replies' = Tail(replies)
            /\ step' = [step EXCEPT !.got = TRUE]
            /\ epc' = "process"
       ELSE /\ step' = [step EXCEPT !.waited = WaitedOut(ReceiveTimeout),
                                    !.outcome = "failed"]
            /\ epc' = "record"
            /\ UNCHANGED <<replies, resp>>
    /\ UNCHANGED <<envVars, files, to_update, idx, stats, inflight, wbuf, log, judged,
                   verdict>>
    /\ UNCHANGED <<connectorVars, toolVars, feedVars>>

\* The response is sanitised, parsed, checked and validated
\* (fetch_launcher.py lines 302-326, historical_data_handler.py lines
\* 112-129); a valid payload goes to save_data.
fetch_process ==
    /\ epc = "process"
    /\ LET st == [step EXCEPT !.data = IF resp.kind = "rows" THEN resp.data ELSE <<>>]
           v == Verify(resp.data, timeframe)
           failed == /\ step' = [st EXCEPT !.outcome = "failed"]
                     /\ epc' = "record"
                     /\ UNCHANGED <<wbuf, log, verdict>>
       IN IF ~json_loads_ok(resp) \/ resp.kind \in {"not_available", "no_data", "bad_rows"}
          THEN failed
          ELSE IF resp.kind = "empty"
          THEN IF engine = "handler"
               THEN save_data_begin(st, <<>>) /\ UNCHANGED verdict
               ELSE failed
          ELSE /\ verdict' = [ok |-> v.ok, detected |-> v.detected, data |-> resp.data,
                              requested |-> timeframe]
               /\ IF v.ok
                  THEN save_data_begin(st, resp.data)
                  ELSE /\ step' = [st EXCEPT !.outcome = "failed", !.reported = v.detected]
                       /\ epc' = "record"
                       /\ UNCHANGED <<wbuf, log>>
    /\ UNCHANGED <<envVars, files, to_update, idx, stats, inflight, replies, resp, judged>>
    /\ UNCHANGED <<connectorVars, toolVars, feedVars>>

\* The for loop of main goes on to the next symbol whatever the result of
\* the step was (fetch_launcher.py lines 386-404).
LoopContinues_mut(outcome) == outcome = "updated"
LoopContinues(outcome) == TRUE

\* main records the result of the step and moves on (lines 388-404); the
\* handler keeps no counters.
main_record ==
    /\ epc = "record"
    /\ stats' = IF engine = "handler" THEN stats
                ELSE IF step.outcome = "updated"
                     THEN [stats EXCEPT !.updated = @ + 1]
                     ELSE [stats EXCEPT !.failed = @ + 1]
    /\ log' = Append(log, Summary(step, files[Cur]))
    /\ step' = NoStep
    /\ resp' = NoResp
    /\ IF LoopContinues(step.outcome) /\ idx < Len(to_update)
       THEN idx' = idx + 1 /\ epc' = "fetch"
       ELSE epc' = "done" /\ UNCHANGED idx
    /\ UNCHANGED <<envVars, files, to_update, inflight, replies, wbuf, judged, verdict>>
    /\ UNCHANGED <<connectorVars, toolVars, feedVars>>

\* -------------------------------------------------- acquisition: the specs
\* The period in minutes of a catalog timeframe (tf_map of verify_timeframe).
period_minutes(tf) ==
    CASE tf = "M1" -> 1 [] tf = "M5" -> 5 [] tf = "M15" -> 15 [] tf = "M30" -> 30
      [] tf = "H1" -> 60 [] tf = "H4" -> 240 [] tf = "D1" -> 1440
      [] tf = "W1" -> 10080 [] tf = "MN1" -> 43200

\* datetime.now() of the runs that fetch: a Wednesday, 12:00.
ClockNow == 9 * 1440 + 720
\* A series file whose last candle is eight days old, and one whose last
\* candle is five minutes old.
StaleFile == [exists |-> TRUE, rows |-> <<[time |-> 1440, val |-> "a"]>>]
FreshFile == [exists |-> TRUE, rows |-> <<[time |-> ClockNow - 5, val |-> "a"]>>]

\* The engine's variables at the start of a run.
EngineInit(e, tf, t, F, A, p) ==
    /\ engine = e /\ now = t /\ timeframe = tf /\ files = F /\ answers = A /\ epc = p
    /\ stats = NoStats /\ inflight = <<>> /\ replies = <<>> /\ resp = NoResp
    /\ wbuf = <<>> /\ log = <<>> /\ verdict = NoVerdict
    /\ judged = [s \in Symbols |-> "none"]

\* Payloads handed to verify_timeframe: candles spaced exactly one catalog
\* period apart, in ascending and in descending order, and a single candle.
Reverse(seq) == [i \in 1..Len(seq) |-> seq[Len(seq) + 1 - i]]
VerifyPayloads ==
    LET asc == {Spaced(0, period_minutes(tf), n) : tf \in Timeframes, n \in 1..MaxRows}
    IN asc \cup {Reverse(d) : d \in asc}

InitVerify ==
    /\ SessionInit
    /\ \E e \in {"launcher", "launcher2"}, tf \in Timeframes :
          EngineInit(e, tf, 0, [s \in Symbols |-> NoFile], {}, "verify")
    /\ to_update = <<>> /\ idx = 0
    /\ \E d \in VerifyPayloads : step = [NoStep EXCEPT !.data = d]
    /\ ToolOff /\ FeedOff

SpecVerify == InitVerify /\ [][verify_call]_vars

\* The clock of a freshness decision: four times of the day on each day of
\* Weeks weeks; the last candle of the file: 00:00 or 11:55 of a day.
FreshNows == {d * 1440 + m : d \in 0..(7 * Weeks - 1), m \in {30, 720, 1320, 1410}}
FreshFiles ==
    {NoFile} \cup {[exists |-> TRUE, rows |-> <<[time |-> d * 1440 + m, val |-> "a"]>>] :
                     d \in 0..(7 * Weeks - 1), m \in {0, 715}}

InitFresh ==
    /\ SessionInit
    /\ \E e \in {"launcher", "launcher2"}, tf \in Timeframes, t \in FreshNows,
          f \in FreshFiles :
          EngineInit(e, tf, t, [s \in Symbols |-> IF s = 1 THEN f ELSE NoFile], {}, "check")
    /\ to_update = <<>> /\ idx = 0 /\ step = NoStep
    /\ ToolOff /\ FeedOff

NextFresh == \E s \in Symbols : needs_update_call(s)

SpecFresh == InitFresh /\ [][NextFresh]_vars

\* Payloads handed to save_data: every sequence of at most MaxRows candles
\* with a time of 1..MaxTime minutes (val "b"); the series file starts as the
\* code leaves it, without duplicates and in ascending order (val "a").
MergeRows == [time : 1..MaxTime, val : {"b"}]
MergePayloads == UNION {[1..n -> MergeRows] : n \in 0..MaxRows}
MergeFiles ==
    {NoFile} \cup
    {[exists |-> TRUE, rows |-> r] :
        r \in {q \in UNION {[1..n -> [time : 1..MaxTime, val : {"a"}]] : n \in 0..MaxTime} :
                 \A i, j \in DOMAIN q : i < j => q[i].time < q[j].time}}

InitMerge ==
    /\ SessionInit
    /\ \E e \in {"launcher", "launcher2", "handler"}, f \in MergeFiles :
          EngineInit(e, "M1", ClockNow, [s \in Symbols |-> IF s = 1 THEN f ELSE NoFile],
                     {}, "idle")
    /\ to_update = <<1>> /\ idx = 1 /\ step = NoStep
    /\ ToolOff /\ FeedOff

NextMerge ==
    \/ \E data \in MergePayloads : save_call(data)
    \/ save_open
    \/ save_write
    \/ \E k \in 0..(MaxRows + MaxTime) : save_error(k)

SpecMerge == InitMerge /\ [][NextMerge]_vars

\* Writing a series file and reading it back: a save_data call with any
\* payload, then save_data calls with the same payload, which read the file
\* the first one wrote.
first_save == \E data \in MergePayloads : log = <<>> /\ save_call(data)
same_save == log # <<>> /\ save_call(log[1].data)
NextRoundTrip ==
    \/ first_save \/ same_save
    \/ save_open
    \/ save_write
    \/ \E k \in 0..(MaxRows + MaxTime) : save_error(k)

SpecRoundTrip == InitMerge /\ [][NextRoundTrip]_vars

\* The responses of the terminal to one request: every form of every kind of
\* text, the candles spaced by the period of any catalog timeframe.
FetchAnswers ==
    {[form |-> fm, kind |-> k, data |-> <<>>, of |-> 0] :
        fm \in Forms, k \in Kinds \ {"rows"}}
    \cup {[form |-> fm, kind |-> "rows", data |-> Spaced(1440, period_minutes(tf), n),
           of |-> 0] : fm \in Forms, tf \in Timeframes, n \in {1, MaxRows}}

\* One acquisition step on an opened session.
InitFetch ==
    /\ \E H \in {{"sub"}, {"sub", "push"}, {"sub", "pull"}, Roles} : SessionOpened(H)
    /\ \E e \in {"launcher", "launcher2", "handler"}, tf \in Timeframes,
          f \in {NoFile, StaleFile, FreshFile} :
          EngineInit(e, tf, ClockNow, [s \in Symbols |-> IF s = 1 THEN f ELSE NoFile],
                     FetchAnswers, "fetch")
    /\ to_update = <<1>> /\ idx = 1 /\ step = NoStep
    /\ ToolOff /\ FeedOff

Step ==
    \/ fetch_begin \/ terminal_reply \/ data_loop_take \/ fetch_receive \/ fetch_process
    \/ save_open \/ save_write
    \/ \E k \in 0..(MaxRows + MaxTime) : save_error(k)
    \/ main_record

SpecFetch == InitFetch /\ [][Step]_vars

\* A batch over the configured symbols for the timeframe M5; the terminal
\* answers with M5 candles, with M1 candles, with a text cut off, with
\* NOT_AVAILABLE or without _data.
BatchAnswers ==
    {[form |-> "strict", kind |-> "rows", data |-> Spaced(1440, 5, 2), of |-> 0],
     [form |-> "relaxed", kind |-> "rows", data |-> Spaced(1440, 1, 2), of |-> 0],
     [form |-> "truncated", kind |-> "rows", data |-> Spaced(1440, 5, 2), of |-> 0],
     [form |-> "strict", kind |-> "not_available", data |-> <<>>, of |-> 0],
     [form |-> "concatenated", kind |-> "no_data", data |-> <<>>, of |-> 0]}

InitBatch ==
    /\ \E H \in {{"sub"}, {"sub", "push"}, {"sub", "pull"}, Roles} : SessionOpened(H)
    /\ \E e \in {"launcher", "launcher2", "handler"},
          F \in [Symbols -> {NoFile, StaleFile, FreshFile}] :
          EngineInit(e, "M5", ClockNow, F, BatchAnswers, "analyze")
    /\ to_update = <<>> /\ idx = 0 /\ step = NoStep
    /\ ToolOff /\ FeedOff

NextBatch == main_analyze \/ Step

SpecBatch == InitBatch /\ [][NextBatch]_vars


\* ============================================================================
\* The anomaly maintenance pass of scripts/data_validation/validate_csv_data.py.
\* A row of the series file is [time, close]: time in hours (the files hold
\* whole minutes, which date_format '%Y.%m.%d %H:%M' writes and parse_dates
\* reads back unchanged), close a positive price.  The mean of the closes is
\* kept as the exact fraction sum / count.
\* ============================================================================
\* LAST_HOURS_TO_KEEP, in hours.
LAST_HOURS_TO_KEEP == 72
\* MAX_PRICE_CHANGE_PCT, in percent.
MAX_PRICE_CHANGE_PCT == 50

Abs(x) == IF x < 0 THEN -x ELSE x
RECURSIVE SumClose(_)
SumClose(rows) == IF rows = <<>> THEN 0 ELSE rows[1].close + SumClose(Tail(rows))
MaxTimeOf(rows) == CHOOSE t \in TimesOf(rows) : \A u \in TimesOf(rows) : u <= t

\* df.sort_index(): the rows in ascending order of time.
RECURSIVE sort_index(_)
sort_index(rows) ==
    IF rows = <<>> THEN <<>>
    ELSE LET m == CHOOSE t \in TimesOf(rows) : \A u \in TimesOf(rows) : t <= u
         IN SelectSeq(rows, LAMBDA r : r.time = m)
              \o sort_index(SelectSeq(rows, LAMBDA r : r.time # m))

\* load_data(filepath) of a file with its header line.
load_data(f) == sort_index(f.rows)

\* threshold_date = last_date - timedelta(hours=LAST_HOURS_TO_KEEP)
threshold_date(df) == MaxTimeOf(df) - LAST_HOURS_TO_KEEP
\* last_valid = df[df.index >= threshold_date]
last_valid(df) == SelectSeq(df, LAMBDA r : r.time >= threshold_date(df))
\* to_check = df[df.index < threshold_date]
to_check_mut(df) == SelectSeq(df, LAMBDA r : r.time <= threshold_date(df))
to_check(df) == SelectSeq(df, LAMBDA r : r.time < threshold_date(df))

\* pct_diff > MAX_PRICE_CHANGE_PCT, where
\* pct_diff = ((close - avg_recent) / avg_recent * 100).abs() and
\* avg_recent = sum / count of the closes of recent.
pct_diff_exceeds(row, recent) ==
    100 * Abs(row.close * Len(recent) - SumClose(recent))
        > MAX_PRICE_CHANGE_PCT * Abs(SumClose(recent))

\* analyze_file(symbol, timeframe) on the file f.
analyze_file(f) ==
    IF ~f.exists THEN [NoAnalysis EXCEPT !.error = "not_found"]
    ELSE IF f.rows = <<>> THEN [NoAnalysis EXCEPT !.error = "empty"]
    ELSE LET df == load_data(f)
         IN IF last_valid(df) = <<>>
            THEN [NoAnalysis EXCEPT !.error = "insufficient"]
            ELSE [df |-> df, last_valid |-> last_valid(df),
                  anomalies |-> SelectSeq(to_check(df),
                                          LAMBDA r : pct_diff_exceeds(r, last_valid(df))),
                  error |-> "none"]

\* clean_df = df[~df.index.isin(anomalies.index)]
clean_df_mut(df, anomalies) == SelectSeq(df, LAMBDA r : r \notin {anomalies[1]})
clean_df(df, anomalies) == SelectSeq(df, LAMBDA r : r.time \notin TimesOf(anomalies))

\* process_symbol: the first analyze_file (line 197).
process_start ==
    /\ ppc = "start"
    /\ analysis' = analyze_file(series)
    /\ ppc' = IF analysis'.error # "none" \/ analysis'.anomalies = <<>>
              THEN "end" ELSE "menu"
    /\ UNCHANGED <<series, series0, choice, n_deleted, n_saveerr>>
    /\ UNCHANGED <<connectorVars, engineVars, feedVars>>

\* choice 'd': clean_and_save writes the file without the anomalies, then
\* the file is analysed again (lines 213-226).
choice_d ==
    /\ ppc = "menu"
    /\ choice' = "d"
    /\ series' = [exists |-> TRUE, rows |-> clean_df(analysis.df, analysis.anomalies)]
    /\ analysis' = analyze_file(series')
    /\ ppc' = IF analysis'.anomalies = <<>> THEN "end" ELSE "menu"
    /\ n_deleted' = n_deleted + 1
    /\ UNCHANGED <<series0, n_saveerr>>
    /\ UNCHANGED <<connectorVars, engineVars, feedVars>>

\* choice 'd' when clean_and_save cannot open the file for writing: the
\* except branch returns False and the menu is shown again (lines 157-158,
\* 227-229).
choice_d_error ==
    /\ ppc = "menu"
    /\ n_saveerr < MaxErrors
    /\ choice' = "d"
    /\ n_saveerr' = n_saveerr + 1
    /\ UNCHANGED <<series, series0, ppc, analysis, n_deleted>>
    /\ UNCHANGED <<connectorVars, engineVars, feedVars>>

\* choice 'n' (next symbol) and choice 'q' (quit): lines 230-233.
choice_n ==
    /\ ppc = "menu"
    /\ choice' = "n" /\ ppc' = "end"
    /\ UNCHANGED <<series, series0, analysis, n_deleted, n_saveerr>>
    /\ UNCHANGED <<connectorVars, engineVars, feedVars>>

choice_q ==
    /\ ppc = "menu"
    /\ choice' = "q" /\ ppc' = "quit"
    /\ UNCHANGED <<series, series0, analysis, n_deleted, n_saveerr>>
    /\ UNCHANGED <<connectorVars, engineVars, feedVars>>

process_symbol == process_start \/ choice_d \/ choice_d_error \/ choice_n \/ choice_q

\* The series files of the pass: no file, an empty file, and the files of at
\* most MaxRows rows in ascending order of time, with times on both sides of
\* the trailing window and closes on both sides of the threshold.
SeriesTimes == {0, 2, 74, 75}
SeriesCloses == {40, 100, 105, 150, 200}
SeriesRows == [time : SeriesTimes, close : SeriesCloses]
SeriesFiles ==
    {[exists |-> FALSE, rows |-> <<>>]}
    \cup {[exists |-> TRUE, rows |-> r] :
            r \in {q \in UNION {[1..n -> SeriesRows] : n \in 0..MaxRows} :
                     \A i \in 1..(Len(q) - 1) : q[i].time <= q[i + 1].time}}

InitClean ==
    /\ SessionInit /\ EngineOff /\ FeedOff
    /\ \E f \in SeriesFiles : series = f /\ series0 = f
    /\ ppc = "start" /\ analysis = NoAnalysis /\ choice = "none"
    /\ n_deleted = 0 /\ n_saveerr = 0

SpecClean == InitClean /\ [][process_symbol]_vars

\* ============================================================================
\* The dispatcher's message handling.  A message is a sequence of pieces of
\* text: "D" is the main delimiter ":|:", ";" the field delimiter, a digit is
\* numeric text, any other piece is text that float() rejects.
\* ============================================================================
Digits == {"1", "2"}

\* str.split(sep, 1) and str.split(sep) on a message (lines 320-321).
split_once(msg, sep) ==
    IF \E i \in 1..Len(msg) : msg[i] = sep
    THEN LET i == CHOOSE k \in 1..Len(msg) :
                     msg[k] = sep /\ \A j \in 1..(k - 1) : msg[j] # sep
         IN <<SubSeq(msg, 1, i - 1), SubSeq(msg, i + 1, Len(msg))>>
    ELSE <<msg>>

RECURSIVE split(_, _)
split(msg, sep) ==
    LET p == split_once(msg, sep) IN
    IF Len(p) = 1 THEN p ELSE <<p[1]>> \o split(p[2], sep)

\* float(text): the text must be a number (lines 322-323).
float_ok(text) == text # <<>> /\ \A i \in 1..Len(text) : text[i] \in Digits
RECURSIVE float(_)
float(text) ==
    IF text = <<>> THEN 0
    ELSE 10 * float(SubSeq(text, 1, Len(text) - 1))
         + (IF text[Len(text)] = "1" THEN 1 ELSE 2)

\* The unpacking and conversions of lines 320-323: the exception they raise.
parse_error(msg) ==
    LET parts == split_once(msg, "D") IN
    IF Len(parts) # 2 THEN "ValueError"
    ELSE LET fields == split(parts[2], ";") IN
         IF Len(fields) # 2 THEN "ValueError"
         ELSE IF ~float_ok(fields[1]) \/ ~float_ok(fields[2]) THEN "ValueError"
         ELSE "none"

\* self.market_data[symbol].append((timestamp, bid, ask)) (lines 331-334);
\* the timestamp is the clock's and is left out.
store(md, symbol, bid, ask) ==
    [k \in DOMAIN md \cup {symbol} |->
        IF k = symbol
        THEN (IF symbol \in DOMAIN md THEN md[symbol] ELSE <<>>) \o <<<<bid, ask>>>>
        ELSE md[k]]

\* MT4MarketDataHandler._process_stream_message (lines 301-348): what it
\* leaves in market_data and the exception that escapes it.  A raising
\* raw_data_callback is caught at lines 308-312 and the message is processed;
\* an empty message returns at once; a parsing error is caught at line 324.
process_stream_message(md, msg) ==
    IF msg = <<>> \/ parse_error(msg) # "none"
    THEN [market_data |-> md, exc |-> "none"]
    ELSE LET parts == split_once(msg, "D")
             fields == split(parts[2], ";")
         IN [market_data |-> store(md, parts[1], float(fields[1]), float(fields[2])),
             exc |-> "none"]

\* The stream handler of the session's class: MT4BaseConnector's raises
\* NotImplementedError (base_connector.py line 611).
stream_handler(md, msg) ==
    IF klass = "base" THEN [market_data |-> md, exc |-> "NotImplementedError"]
    ELSE process_stream_message(md, msg)

\* The message handler of the session's class: MT4BaseConnector's raises
\* NotImplementedError (line 596); MT4MarketDataHandler's calls it and
\* catches the exception (market_data_handler.py lines 229-257).
message_handler(md, msg) ==
    IF klass = "base" THEN [market_data |-> md, exc |-> "NotImplementedError"]
    ELSE [market_data |-> md, exc |-> "none"]

\* except on a handler's exception: no handler catches it, the loop ends.
data_loop_except_mut(exc) == "ended"
\* except Exception of _data_loop (lines 577-579): log, sleep, next iteration.
data_loop_except(exc) == "running"

\* One iteration of _data_loop that reads a message of a channel and hands it
\* to the handler (lines 559-579).
dispatch(channel, msg) ==
    /\ dloop = "running"
    /\ handled < MaxHandled
    /\ LET r == IF channel = "pull" THEN message_handler(market_data, msg)
                ELSE stream_handler(market_data, msg)
           err == IF r.exc # "none" THEN r.exc
                  ELSE IF channel = "sub" /\ klass = "market" /\ msg # <<>>
                  THEN parse_error(msg) ELSE "none"
       IN /\ market_data' = r.market_data
          /\ dloop' = IF r.exc # "none" THEN data_loop_except(r.exc) ELSE dloop
          /\ n_raised' = IF err # "none" THEN n_raised + 1 ELSE n_raised
          /\ last' = [channel |-> channel, msg |-> msg, exc |-> err,
                      before |-> market_data]
    /\ handled' = handled + 1
    /\ UNCHANGED klass
    /\ UNCHANGED <<connectorVars, engineVars, toolVars>>

\* The messages the terminal can send: a symbol, with or without the main
\* delimiter, and one to three fields separated by ";".
SymbolTexts == {<<>>, <<"A">>, <<"B">>}
FieldTexts == {<<>>, <<"1", "2">>, <<"x">>}
FieldLists == UNION {[1..n -> FieldTexts] : n \in 1..3}
RECURSIVE join(_)
join(fields) ==
    IF Len(fields) = 1 THEN fields[1]
    ELSE fields[1] \o <<";">> \o join(Tail(fields))
Messages ==
    {<<>>} \cup {s \o d \o join(f) : s \in SymbolTexts, d \in {<<>>, <<"D">>}, f \in FieldLists}

InitDispatch ==
    /\ SessionInit /\ EngineOff /\ ToolOff
    /\ klass \in {"base", "market"}
    /\ market_data = <<>> /\ dloop = "running"
    /\ handled = 0 /\ n_raised = 0 /\ last = NoMessage

NextDispatch ==
    \E channel \in {"pull", "sub"}, msg \in Messages : dispatch(channel, msg)

SpecDispatch == InitDispatch /\ [][NextDispatch]_vars

\* ------------------------------------------------------------------ claims
RcLabels == {"rc_loop", "rc_close", "rc_new", "rc_assign", "rc_register"}
\* The role's current socket is open and its connection is established.
Established(r) ==
    sock_of[r] # 0 /\ sock_state[sock_of[r]] = "open" /\ link[sock_of[r]]
\* The role's monitor thread has read every event there is.
MonitorIdle(r) == pc[MonitorThread(r)] = "m_loop" /\ mq[r] = <<>>

\* C1: after a disconnect whose reconnection succeeded, the channel's
\* connected status becomes true again.  Stated on the states in which
\* nothing is left to happen for the channel: the reconnection has returned
\* True, the new connection is established and the monitor thread has read
\* every event; there the health accessor must report connected (for a
\* channel that reported connected before the disconnect).
C1_ReconnectedIsConnected ==
    \A r \in Roles :
        (seen_connected[r] /\ reconn_ok[r] > 0 /\ Established(r) /\ MonitorIdle(r))
            => socket_status[r].connected

\* C2: a message queued on a healthy reply channel when the caller invokes
\* receive(timeout) is returned by that call, whatever the dispatcher thread
\* does (no transport error occurring).
C2_QueuedMessageReturned ==
    (call = "receive" /\ pc["main"] = "idle" /\ queued_at_call
        /\ n_err = 0 /\ n_fail = 0)
        => result["main"] = "msg"

\* C3: the retry_delay sleeps made inside one send() call, those of a
\* reconnection it triggers included, number at most max_retries.
C3_SendSleepsBounded == sleeps <= max_retries

\* C4: send() on an unhealthy command channel returns False in one step,
\* hands nothing to the transport and leaves every channel's handle, poll
\* registration and status unchanged.
C4_UnhealthySendRefused ==
    [][(n_call' = n_call + 1 /\ call' = "send" /\ ~socket_status["push"].connected)
        => /\ pc'["main"] = "idle"
           /\ result'["main"] = "False"
           /\ handed' = 0
           /\ UNCHANGED <<sock_of, poller, socket_status, sock_state, link>>]_vars

C4_Witness ==
    /\ call = "send" /\ pc["main"] = "idle" /\ unhealthy_at_call
    /\ result["main"] = "False"
    /\ \E r \in Roles : socket_status[r].connected

\* The slack of "within [T, T + eps]": one sleep interval.
Epsilon == sleep_delay

\* C5: receive(timeout=T) on a healthy reply channel with no incoming data
\* returns None no earlier than T and no later than T + eps.
C5_ReceiveReturnsWithinTimeout ==
    (call = "receive" /\ pc["main"] = "idle" /\ ~unhealthy_at_call
        /\ n_msg = 0 /\ n_err = 0 /\ n_fail = 0)
        => /\ result["main"] = None
           /\ elapsed >= rv["main"].timeout
           /\ elapsed <= rv["main"].timeout + Epsilon

\* C6: opening a session returns an established session, or raises
\* ConnectionError after at most retries + 1 attempts with a delay between
\* consecutive attempts.
C6_OpenEstablishedOrConnectFailure ==
    /\ attempts <= max_retries + 1
    /\ pc["main"] = "raised"
        => raised = "ConnectionError" /\ delays = attempts - 1
    /\ pc["main"] = "idle"
        => raised = "" /\ context = "open"
           /\ \A r \in Roles : sock_of[r] # 0 /\ sock_state[sock_of[r]] = "open"

\* C7: a session started with all three channels reachable reaches
\* active = true and connected = true for the three channels.  Stated on the
\* states in which nothing is left to happen: construction has returned
\* without an error, the three connections are established and the monitor
\* threads have read every event.
C7_StartedAllConnected ==
    (pc["main"] = "idle" /\ n_fail = 0
        /\ \A r \in Roles : Established(r) /\ MonitorIdle(r))
        => active /\ \A r \in Roles : socket_status[r].connected

\* C8: a reconnection makes at most max_retries attempts; when all of them
\* fail the channel is left marked unhealthy (read once the reconnection has
\* returned to send() and the monitor thread has no event left to read).
C8_ExhaustedIsUnhealthy ==
    /\ \A t \in Threads : rc_attempts[t] <= max_retries
    /\ (pc["main"] = "send_fail" /\ "main" \in reconn_failed["push"]
            /\ MonitorIdle("push"))
        => ~socket_status["push"].connected

\* C9: every step of a reconnection of one channel leaves the other two
\* channels' handles, the state of those handles, their connected status and
\* last event, and their poll registrations unchanged.
C9_ReconnectFrame ==
    [][\A t \in Threads :
         (pc[t] \in RcLabels /\ pc'[t] # pc[t])
           => \A r \in Roles \ {rc[t].role} :
                /\ sock_of'[r] = sock_of[r]
                /\ socket_status'[r] = socket_status[r]
                /\ sock_state'[sock_of[r]] = sock_state[sock_of[r]]
                /\ (sock_of[r] \in poller') = (sock_of[r] \in poller)
                /\ {s \in poller' : sock_role'[s] = r} = {s \in poller : sock_role[s] = r}]_vars

C9_Witness ==
    /\ reconn_ok["pull"] > 0
    /\ reconn_failed["sub"] # {}
    /\ socket_status["push"].connected
    /\ sock_of["push"] \notin poller /\ sock_state[sock_of["push"]] = "open"

\* C10: once a shutdown() has run, a further shutdown() call returns at once:
\* it changes no session state, closes or releases nothing and does not run
\* the teardown again.
C10_ShutdownIdempotent ==
    [][(n_call' = n_call + 1 /\ call' = "shutdown" /\ shutdowns >= 1)
        => /\ pc'["main"] = "idle"
           /\ UNCHANGED <<sessionVars, released, shutdowns>>]_vars

C10_Witness ==
    /\ shutdowns = 1 /\ n_call = 2 /\ call = "shutdown" /\ pc["main"] = "idle"
    /\ csv_file = "closed" /\ context = "destroyed"

\* ------------------------------------------- claims: acquisition engine
\* The timeframe of the mode of the consecutive timestamp deltas of a
\* payload of two or more candles.
ModeTimeframe(data) ==
    tf_map2(most_common([i \in 1..(Len(data) - 1) |-> data[i + 1].time - data[i].time]))
StrictlyAscending(rows) == \A i, j \in DOMAIN rows : i < j => rows[i].time < rows[j].time
Launchers == {"launcher", "launcher2"}

\* C11: a received payload whose detected timeframe (mode of the consecutive
\* timestamp deltas) differs from the requested one is rejected as a whole
\* by the launchers' fetch: the step ends as failed and the persisted series
\* file is what it was before the step.
C11_MismatchRejected ==
    \A i \in DOMAIN log :
        (engine \in Launchers /\ log[i].got /\ Len(log[i].data) >= 2
            /\ ModeTimeframe(log[i].data) # timeframe)
        => log[i].outcome = "failed" /\ log[i].after = log[i].before

\* C12: for every catalog timeframe TF, a payload of candles spaced exactly
\* one period of TF apart validates true against TF, and validates false
\* against every other catalog timeframe with TF reported as detected.
C12_ExactSpacingValidates ==
    \A tf \in Timeframes :
        (epc = "verified" /\ Len(verdict.data) >= 2
            /\ verdict.data = Spaced(0, period_minutes(tf), Len(verdict.data)))
        => /\ verdict.ok = (verdict.requested = tf)
           /\ verdict.requested # tf => verdict.detected = tf

\* C13: after any sequence of save operations with arbitrary payloads, the
\* persisted series file has no two rows with the same timestamp and its
\* rows are in strictly ascending timestamp order.
C13_FileStrictlyAscending ==
    epc = "idle" => \A s \in Symbols : StrictlyAscending(files[s].rows)

\* C14: merging the same validated payload a second time leaves the
\* persisted file identical to the file after the first merge.
C14_MergeIdempotent ==
    \A i \in DOMAIN log :
        (i > 1 /\ log[i].data = log[i - 1].data
            /\ verify_timeframe(log[i].data, timeframe).ok
            /\ verify_timeframe2(log[i].data, timeframe).ok
            /\ ~log[i - 1].error /\ ~log[i].error /\ log[i - 1].outcome # "failed")
        => log[i].after = log[i - 1].after

\* C15: the merged series is exactly the union by timestamp of the existing
\* rows and the new rows, and for every timestamp present in both the
\* persisted row is the new row.
C15_MergeIsUnionNewWins ==
    \A i \in DOMAIN log :
        (log[i].outcome \in {"updated", "unchanged"} /\ log[i].data # <<>>)
        => /\ TimesOf(log[i].after.rows)
                = TimesOf(log[i].before.rows) \cup TimesOf(log[i].data)
           /\ \A k \in DOMAIN log[i].after.rows :
                 log[i].after.rows[k].time \in TimesOf(log[i].data)
                 => log[i].after.rows[k]
                        = LastWith(log[i].data, log[i].after.rows[k].time)

\* C16: when persisting the merged series fails after the write has begun,
\* the file is the complete old content or the complete new content, never
\* a truncated or partial one.
C16_FailedWriteLeavesFile ==
    \A i \in DOMAIN log :
        (log[i].error /\ log[i].before.rows # <<>>)
        => \/ log[i].after = log[i].before
           \/ log[i].after.rows = sorted_data(log[i].before.rows, log[i].data)

\* C17: a response that cannot be parsed after the sanitation pass, or that
\* has no usable _data list, never reaches the write of the series file: the
\* step ends without an update (as failed in the launchers) and the
\* persisted file is what it was before the step.
Unusable ==
    resp.kind # "none"
    /\ (resp.form = "truncated" \/ resp.kind \in {"no_data", "empty", "bad_rows"})
C18_BatchAttemptsAll ==
    /\ \A i \in DOMAIN log : i <= Len(to_update) /\ log[i].symbol = to_update[i]
    /\ epc \in {"fetch", "receive", "process", "save_open", "save_write", "record"}
          => idx = Len(log) + 1
    /\ engine \in Launchers
          => /\ \A i \in DOMAIN log : log[i].outcome \in {"updated", "failed"}
             /\ stats.updated = Cardinality({i \in DOMAIN log : log[i].outcome = "updated"})
             /\ stats.failed = Cardinality({i \in DOMAIN log : log[i].outcome = "failed"})
    /\ epc = "done"
          => /\ Len(log) = Len(to_update)
             /\ \A s \in Symbols :
                   (judged[s] = "stale") = (\E i \in DOMAIN log : log[i].symbol = s)
             /\ engine \in Launchers
                   => stats.updated + stats.failed = stats.needs_update
C18_Witness ==
    /\ epc = "done" /\ engine = "launcher" /\ Len(log) = NumSymbols
    /\ log[1].outcome = "failed" /\ log[1].sent /\ ~log[1].got
    /\ log[NumSymbols].outcome = "updated"
    /\ stats.failed >= 1 /\ stats.updated >= 1

\* C19: the request of the next series is never sent before the current
\* step has received its response or waited out its response timeout.
Settled(e) == e.got \/ e.waited >= ReceiveTimeout
C19_NoPipelining ==
    \A i \in DOMAIN log :
        (engine = "launcher" /\ log[i].sent /\ IF i < Len(log) THEN log[i + 1].sent ELSE step.sent)
        => Settled(log[i])

\* C20: on a Saturday or Sunday a series whose last persisted candle is
\* dated the immediately preceding Friday is judged fresh, for every
\* timeframe.
C20_WeekendCarryForward ==
    \A s \in Symbols :
        (judged[s] # "none" /\ Weekday(DayOf(now)) >= 5 /\ files[s].exists
            /\ DayOf(get_last_timestamp(files[s]))
                 = DayOf(now) - (Weekday(DayOf(now)) - 4))
        => judged[s] = "fresh"
\* The last trading day at time t: Friday on a weekend, the previous
\* trading day before the close of 21:55, today after it.
LastTradingDay(t) ==
    IF Weekday(DayOf(t)) >= 5 THEN DayOf(t) - (Weekday(DayOf(t)) - 4)
    ELSE IF BeforeClose(t) THEN DayOf(t) - (IF Weekday(DayOf(t)) > 0 THEN 1 ELSE 3)
    ELSE DayOf(t)
Intraday == {"M1", "M5", "M15", "M30", "H1", "H4"}

\* C21: for an intraday timeframe of period P minutes, during active trading
\* hours a series whose last candle is from the last trading day or later is
\* judged stale exactly when the age of the last candle exceeds 3 * P.
C21_AgeLimitScalesWithPeriod ==
    \A s \in Symbols :
        (engine = "launcher2" /\ judged[s] # "none" /\ timeframe \in Intraday
            /\ files[s].exists
            /\ Weekday(DayOf(now)) < 5 /\ BeforeClose(now)
            /\ DayOf(get_last_timestamp(files[s])) >= LastTradingDay(now)
            /\ DayOf(get_last_timestamp(files[s])) <= DayOf(now))
        => ((judged[s] = "stale")
              = (now - get_last_timestamp(files[s]) > 3 * period_minutes(timeframe)))
\* ------------------------------------------------ claims: maintenance pass
\* The rows of the trailing window ending at the newest row of the file, and
\* the rows older than it.
InWindow(rows) ==
    SelectSeq(rows, LAMBDA r : r.time >= MaxTimeOf(rows) - LAST_HOURS_TO_KEEP)
Older(rows) ==
    SelectSeq(rows, LAMBDA r : r.time < MaxTimeOf(rows) - LAST_HOURS_TO_KEEP)
\* |close - baseline| > threshold% of baseline, the baseline being the mean
\* close of the rows w (both sides multiplied by 100 * Len(w)).
Deviates(r, w) ==
    100 * Abs(r.close * Len(w) - SumClose(w)) > MAX_PRICE_CHANGE_PCT * SumClose(w)
RowsOf(seq) == {seq[i] : i \in DOMAIN seq}

\* C22: the anomaly analysis flags a row exactly when it is older than the
\* trailing window and its close deviates from the baseline (the mean close
\* over the window) by strictly more than the threshold percentage of the
\* baseline; no row inside the window is flagged.
C22_AnomalyFlagging ==
    (ppc \in {"menu", "end", "quit"} /\ analysis.error = "none")
    => /\ RowsOf(analysis.anomalies)
            = {r \in RowsOf(Older(series.rows)) : Deviates(r, InWindow(series.rows))}
       /\ RowsOf(analysis.anomalies) \cap RowsOf(InWindow(series.rows)) = {}
C22_Witness ==
    /\ ppc = "menu" /\ n_deleted = 0
    /\ series.rows = <<[time |-> 0, close |-> 105], [time |-> 0, close |-> 200],
                       [time |-> 75, close |-> 100]>>
    /\ analysis.anomalies = <<[time |-> 0, close |-> 200]>>

C24_EndToEnd ==
    (epc = "record" /\ engine = "launcher" /\ step.sent /\ step.got /\ ~step.error
        /\ ~step.before.exists
        /\ resp.form = "strict" /\ resp.kind = "rows" /\ Len(resp.data) >= 2
        /\ resp.data = Spaced(resp.data[1].time, period_minutes(timeframe), Len(resp.data)))
    => /\ step.outcome = "updated"
       /\ files[Cur] = [exists |-> TRUE, rows |-> resp.data]
\* C25: a set of candles with distinct timestamps written as a series file
\* where there was none is read back as the same candles keyed by timestamp,
\* in ascending order of time, whatever the order they were handed over in.
Distinct(rows) == Cardinality(TimesOf(rows)) = Len(rows)
C26_FreshStepSendsNothing ==
    (step.symbol # 0 /\ engine \in Launchers)
    => /\ ~NeedsUpdate(step.before, timeframe, now)
          => /\ ~step.sent /\ inflight = <<>>
             /\ files[step.symbol] = step.before
       /\ get_last_timestamp(step.before) = -1
          => /\ NeedsUpdate(step.before, timeframe, now)
             /\ step.reported # "up_to_date"
\* ------------------------------------------- claims: channels and dispatcher
\* C27: the handle a reconnection installs for a channel is connected to the
\* port the channel's handle was connected to when the session was opened,
\* for the command, the reply and the feed channel.
C27_ReconnectSameEndpoint ==
    \A r \in Roles :
        (sock_of[r] # 0 /\ reconn_ok[r] > 0)
        => sock_port[sock_of[r]] = init_port(r)
\* C28: at every instant at most one thread is executing the reconnection
\* routine (the handle swap) of a given channel.
Swapping(r) == {t \in Threads : rc[t].role = r /\ pc[t] \in RcLabels}
C28_OneSwapPerChannel ==
    \A r \in Roles : Cardinality(Swapping(r)) <= 1
\* C29: the dispatcher thread never reads from a handle that has been
\* closed, and its poll never fails on a closed handle, under every
\* interleaving with a reconnection.
ReadsReply ==
    pc["data"] = "recv_read" /\ pc'["data"] # "recv_read"
    /\ sock_of["pull"] \in rv["data"].socks
ReadsFeed ==
    pc["data"] = "d_sub" /\ pc'["data"] # "d_sub" /\ sock_of["sub"] \in d_socks
PollRaises == pc["data"] = "recv_loop" /\ pc'["data"] = "rc_loop"
WholeHandle(r) == sock_state[sock_of[r]] = "open"
C29_NoHalfSwappedHandle ==
    [][/\ ReadsReply => WholeHandle("pull")
       /\ ReadsFeed => WholeHandle("sub")
       /\ ~PollRaises]_vars
\* C30: in an iteration whose poll reported the reply channel ready, the
\* dispatcher drains a message from it and has it for the message handler,
\* whatever the recorded connected status of the channel (no transport
\* error occurring).
C30_ReadyReplyDrained ==
    (pc["data"] = "d_msg" /\ n_err = 0) => result["data"] = "msg"
\* C31: a message that is ready on the feed channel is eventually taken off
\* it by the dispatcher and forwarded to the stream handler, even if no
\* further reply message ever arrives: the handling of a reply-ready event is
\* bounded.  A transport error, which sends the dispatcher into a
\* reconnection, ends the obligation.
FeedReady ==
    /\ sock_of["sub"] \in poller /\ inq[sock_of["sub"]] > 0
    /\ pc["data"] \notin {"off", "stopped"}
C31_FeedNotStarved == FeedReady ~> (~FeedReady \/ pc["data"] \in RcLabels)
\* C32: an opened session that is not shut down has exactly one running
\* dispatcher thread and one running monitor thread per channel, also when a
\* connection attempt failed and was retried during open.
C32_OneThreadEach ==
    (pc["main"] = "idle" /\ ~shutdown_initiated)
        => /\ data_threads = 1
           /\ \A t \in Monitors : pc[t] \notin {"off", "stopped"}
\* C33: shutdown() sets the shutdown flag before anything else, closes the
\* channel handles only after the joins (each bounded by its timeout) have
\* returned, releases the transport context only when every channel handle
\* is closed, and always terminates.
SdLabels == {"sd_monitors", "sd_join", "sd_sockets", "sd_context"}
HandleClosing ==
    \E r \in Roles :
        /\ sock_of[r] # 0
        /\ sock_state[sock_of[r]] = "open" /\ sock_state'[sock_of[r]] = "closed"
C33_ShutdownOrder ==
    /\ [][/\ pc'["main"] \in SdLabels => shutdown_initiated'
          /\ HandleClosing => pc["main"] = "sd_sockets" /\ pc'["main"] = "sd_context"
          /\ (pc'["main"] = "sd_sockets" /\ pc["main"] # "sd_sockets")
                => pc["main"] = "sd_join"
          /\ (context = "open" /\ context' = "destroyed")
                => \A r \in Roles : sock_of[r] # 0 /\ sock_state[sock_of[r]] = "closed"]_vars
    /\ (pc["main"] \in SdLabels) ~> (pc["main"] = "idle" /\ shutdowns >= 1)

\* A shutdown that ran to its end while a monitor thread had not ended (its
\* join timed out): handles closed, context released.
C33_Witness ==
    /\ shutdowns = 1 /\ context = "destroyed" /\ pc["main"] = "idle"
    /\ \A r \in Roles : sock_state[sock_of[r]] = "closed"
    /\ pc["mon_pull"] = "m_loop" /\ pc["data"] = "stopped"
\* C34: once the shutdown flag is set, the dispatcher loop, the monitor
\* loops, a reconnection retry loop and the receive wait loop of a session
\* thread leave at their next loop test, and every session thread eventually
\* terminates.
LoopHeads == {"m_loop", "d_poll", "rc_loop", "recv_loop"}
LeavesLoop(t) ==
    IF pc[t] \in {"m_loop", "d_poll"} THEN pc'[t] = "stopped"
    ELSE pc'[t] = Head(stack[t]) /\ stack'[t] = Tail(stack[t])
WellFormed(msg) ==
    \E s \in SymbolTexts \ {<<>>}, b \in FieldTexts, a \in FieldTexts :
        /\ float_ok(b) /\ float_ok(a)
        /\ msg = s \o <<"D">> \o b \o <<";">> \o a
C35_HandlerErrorsContained ==
    /\ dloop \in {"off", "running"}
    /\ last.exc # "none" => market_data = last.before
    /\ (last.channel = "sub" /\ klass = "market" /\ WellFormed(last.msg))
         => /\ last.exc = "none"
            /\ market_data # last.before
            /\ \A k \in DOMAIN last.before :
                  \A i \in 1..Len(last.before[k]) : market_data[k][i] = last.before[k][i]

\* A tick stored after the handling of an earlier message raised.
C35_Witness ==
    /\ klass = "market" /\ handled = 2 /\ n_raised = 1 /\ dloop = "running"
    /\ last.exc = "none" /\ last.channel = "sub"
    /\ last.before = <<>> /\ market_data = (<<"A">> :> <<<<12, 12>>>>)
\* C36: the rows persisted into the series file of a symbol come from the
\* response to the request issued for that symbol; a response that arrives
\* after its own step timed out is not accepted by a later step and merged
\* into another series.
C36_ResponseCorrelated ==
    (epc = "record" /\ step.got /\ step.outcome = "updated"
        /\ files[step.symbol] # step.before)
        => resp.of = step.symbol
\* C37: the dispatcher's poll set holds only the session's current reply
\* handle and current feed handle: never the command handle, and never a
\* closed or superseded handle, after any reconnections.
C37_PollSetCurrent ==
    /\ poller \subseteq {sock_of["pull"], sock_of["sub"]}
    /\ \A s \in poller : sock_state[s] = "open" /\ sock_role[s] # "push"
\* C38: a send(message) call hands the message to the transport at most
\* once and returns True exactly when that hand-off succeeded; after a
\* critical transport error it reconnects the command channel and returns
\* False without sending the message on the new handle.
CriticalErrors == retry_count - sleeps
C38_SendAtMostOnce ==
    call = "send" =>
        /\ handed <= 1
        /\ pc["main"] = "idle" => (result["main"] = "True" <=> handed = 1)
        /\ pc["main"] \in RcLabels => rc["main"].role = "push" /\ handed = 0
        /\ (~unhealthy_at_call /\ pc["main"] = "idle" /\ CriticalErrors > 0)
              => result["main"] = "False" /\ handed = 0

\* A send that returned False after a critical error and a successful
\* reconnection of the command channel.
C38_Witness ==
    /\ call = "send" /\ pc["main"] = "idle" /\ ~unhealthy_at_call
    /\ CriticalErrors = 1 /\ reconn_ok["push"] = 1
    /\ result["main"] = "False" /\ handed = 0
    /\ sock_state[sock_of["push"]] = "open"
\* C39: when sending the HIST request fails, the acquisition step of the
\* series ends as failed at once: it does not wait for a response and neither
\* reads nor writes the series file.
C39_SendFailureEndsStep ==
    (step.ret = "main" /\ ~step.sent)
        => /\ epc \notin {"receive", "process", "save_open", "save_write"}
           /\ ~step.got /\ step.waited = 0
           /\ files[step.symbol] = step.before
====
